---------------------------- MODULE Spec2Model ----------------------------
(***************************************************************************)
(* The per-connection SMTP state machine of cloudship's smtp::server:      *)
(* Session (session.rs), Transport (transport.rs), RecvBuf / SendBuf       *)
(* (buf.rs) and the Reply writer (reply.rs).                               *)
(*                                                                         *)
(* Octets.  A buffer is a sequence of octets.  An octet is a string: the   *)
(* octets CR, LF, ".", " ", "-" and the decimal digits stand for           *)
(* themselves; any other string (a verb such as "MAIL", a text such as     *)
(* "Ok") stands for a run of octets holding neither CR nor LF, which the   *)
(* code under study never looks into, and counts as one octet.             *)
(***************************************************************************)
EXTENDS Integers, Sequences, FiniteSets, TLC

CR == "CR"
LF == "LF"
DOT == "."
SP == " "
DASH == "-"

\* b"\r\n.\r\n", the end of the message data (buf.rs:62).
DataEnd == <<CR, LF, DOT, CR, LF>>

\* The length of DataEnd as the code spells it (session.rs:308, buf.rs:60).
DataEndLen == 5

\* Variant: three octets held back.
RetainThree == DataEndLen - 2

\* Variant: four octets held back, one less than the end of data is long.
RetainFour == DataEndLen - 1

\* The number of octets ReadData::recv holds back when there is no end of
\* data in the buffer (session.rs:314-315).
Retain == 5

\* buf.rs:61 scans the start positions 0 .. len - 4 (exclusive).
ScanBack == 4

(***************************************************************************)
(* Bounds of the model.                                                    *)
(***************************************************************************)
\* The longest message data stream (body and end of data) a client sends
\* for one DATA command.
MaxBody == 8

\* The most octets a client delivers in one read during the data phase.
MaxRead == 8

\* The most accepted recipients that are counted.
MaxRcpt == 2

\* The most octets one partial write takes from the send buffer.
MaxPartial == 1

\* Extra recursion depth granted to Transport::recv beyond one call per
\* octet of the receive buffer.
FuelSlack == 3

Min(a, b) == IF a < b THEN a ELSE b
Max(a, b) == IF a > b THEN a ELSE b

Last(s) == s[Len(s)]

\* All sequences over S of length 0 .. n.
RECURSIVE SeqsUpTo(_, _)
SeqsUpTo(S, n) ==
    IF n = 0 THEN {<<>>}
    ELSE LET shorter == SeqsUpTo(S, n - 1)
         IN  shorter \cup {Append(s, x) : s \in {q \in shorter : Len(q) = n - 1}, x \in S}

(***************************************************************************)
(* util::scribe and SendBuf (buf.rs).                                      *)
(***************************************************************************)
DigitChars == <<"0", "1", "2", "3", "4", "5", "6", "7", "8", "9">>

\* The decimal digits of v, as Scribe::scribble_u64 emits them.
RECURSIVE Decimal(_)
Decimal(v) ==
    LET u == v \div 10
    IN  (IF u > 0 THEN Decimal(u) ELSE <<>>) \o <<DigitChars[(v % 10) + 1]>>

\* SendBuf::new: an empty vector under a cursor at 0.
SendBufNew == [inner |-> <<>>, pos |-> 0]

SendLen(s) == Len(s.inner)

SendIsEmpty(s) == Len(s.inner) = s.pos

SendSlice(s) == SubSeq(s.inner, s.pos + 1, Len(s.inner))

\* impl Scribe for SendBuf
SendScribbleBytes(s, buf) == [s EXCEPT !.inner = @ \o buf]

SendScribbleOctet(s, v) == [s EXCEPT !.inner = Append(@, v)]

\* SendBuf::update; pos counts from 0.
SendUpdate(s, p, ch) == [s EXCEPT !.inner[p + 1] = ch]

\* Variant: a drained buffer keeps its octets and loses its cursor.
SendTryWriteRewinds(s, w) ==
    IF w.kind = "Err" THEN [buf |-> s, res |-> "Err"]
    ELSE IF w.kind = "None" THEN [buf |-> s, res |-> "False"]
    ELSE LET moved == [s EXCEPT !.pos = @ + w.n]
         IN  IF moved.pos = Len(moved.inner)
             THEN [buf |-> [moved EXCEPT !.pos = 0], res |-> "True"]
             ELSE [buf |-> moved, res |-> "False"]

\* SendBuf::try_write.  w is what TryWrite::try_write_buf did: [kind, n]
\* with kind "Err", "None" (would block) or "Some" and n the number of
\* octets it took, which advances the cursor.  The result is [buf, res]
\* with res "Err", "False" or "True".
SendTryWrite(s, w) ==
    IF w.kind = "Err" THEN [buf |-> s, res |-> "Err"]
    ELSE IF w.kind = "None" THEN [buf |-> s, res |-> "False"]
    ELSE LET moved == [s EXCEPT !.pos = @ + w.n]
         IN  IF moved.pos = Len(moved.inner)
             THEN [buf |-> [inner |-> <<>>, pos |-> 0], res |-> "True"]
             ELSE [buf |-> moved, res |-> "False"]

(***************************************************************************)
(* The Reply writer (reply.rs).  A status is <<a, b, c>>, or <<>> for None.*)
(***************************************************************************)
NoStatus == <<>>

\* write_prefix: the code, a space, the status if any.
WritePrefix(send, code, status) ==
    IF status = NoStatus
    THEN SendScribbleOctet(SendScribbleBytes(send, Decimal(code)), SP)
    ELSE SendScribbleBytes(
             SendScribbleOctet(SendScribbleBytes(send, Decimal(code)), SP),
             Decimal(status[1]) \o <<DOT>> \o Decimal(status[2]) \o <<DOT>>
                 \o Decimal(status[3]) \o <<SP>>)

\* What write_prefix returns: the length of the target once the code is
\* in it, which is where the space or the dash goes.
PrefixSp(send, code) == SendLen(SendScribbleBytes(send, Decimal(code)))

\* Reply::new
ReplyNew(send, code, status) ==
    [buf |-> WritePrefix(send, code, status), code |-> code, status |-> status,
     sp |-> PrefixSp(send, code), crlf |-> FALSE]

\* The part of Reply's scribble methods that starts a new line of a
\* multi-line reply when the last write ended a line.
ReplyFreshLine(r) ==
    IF r.crlf
    THEN [r EXCEPT !.buf = WritePrefix(SendUpdate(r.buf, r.sp, DASH), r.code, r.status),
                   !.sp = PrefixSp(r.buf, r.code),
                   !.crlf = FALSE]
    ELSE r

\* text.split(|ch| *ch == b'\n'): the pieces between the LFs.
RECURSIVE SplitLF(_)
SplitLF(text) ==
    IF \A i \in 1..Len(text) : text[i] # LF THEN <<text>>
    ELSE LET i == CHOOSE k \in 1..Len(text) :
                      text[k] = LF /\ \A j \in 1..(k - 1) : text[j] # LF
         IN  <<SubSeq(text, 1, i - 1)>> \o SplitLF(SubSeq(text, i + 1, Len(text)))

\* One turn of the loop of Reply::scribble_bytes, once the line is known
\* not to be empty and a new line has been started where needed.
ReplyPutLine(fresh, line) ==
    IF Last(line) = CR
    THEN [fresh EXCEPT !.buf = SendScribbleOctet(SendScribbleBytes(@, line), LF),
                       !.crlf = TRUE]
    ELSE [fresh EXCEPT !.buf = SendScribbleBytes(@, line)]

\* One turn of the loop of Reply::scribble_bytes.
ReplyScribbleLine(r, line) ==
    IF line = <<>> THEN r ELSE ReplyPutLine(ReplyFreshLine(r), line)

RECURSIVE ReplyScribbleLines(_, _)
ReplyScribbleLines(r, lines) ==
    IF lines = <<>> THEN r
    ELSE ReplyScribbleLines(ReplyScribbleLine(r, Head(lines)), Tail(lines))

\* impl Scribe for Reply: scribble_bytes
ReplyScribbleBytes(r, text) ==
    IF text = <<>> THEN r ELSE ReplyScribbleLines(r, SplitLF(text))

\* impl Scribe for Reply: scribble_octet
ReplyScribbleOctet(r, ch) ==
    [ReplyFreshLine(r) EXCEPT !.buf = SendScribbleOctet(@, ch)]

\* Scribe::scribble_u64 on a Reply: one scribble_octet per digit.
RECURSIVE ReplyScribbleOctets(_, _)
ReplyScribbleOctets(r, octets) ==
    IF octets = <<>> THEN r
    ELSE ReplyScribbleOctets(ReplyScribbleOctet(r, Head(octets)), Tail(octets))

ReplyScribbleU64(r, v) == ReplyScribbleOctets(r, Decimal(v))

\* Reply::reply and SendBuf::reply: a whole reply at once; the new SendBuf.
SendReply(send, code, status, text) ==
    ReplyScribbleBytes(ReplyNew(send, code, status), text).buf

(***************************************************************************)
(* RecvBuf (buf.rs).  The model keeps as_slice(): the octets from rpos on. *)
(***************************************************************************)
\* RecvBuf::advance
RecvAdvance(recv, n) == SubSeq(recv, Min(Len(recv), n) + 1, Len(recv))

\* RecvBuf::find_data_end: the index (from 0) of the first DataEnd, or -1.
FindDataEnd(slice) ==
    IF Len(slice) >= DataEndLen
    THEN LET hits == {i \in 0..(Len(slice) - ScanBack - 1) :
                          SubSeq(slice, i + 1, i + DataEndLen) = DataEnd}
         IN  IF hits = {} THEN -1
             ELSE CHOOSE i \in hits : \A j \in hits : i <= j
    ELSE -1


(***************************************************************************)
(* The command parser.  RecvBuf::parse_command and smtp::syntax are not    *)
(* among the sources; this is the collaborator contract of the design      *)
(* document: a command ends at CRLF; the result is a command,              *)
(* Unrecognized, ParameterError, NeedMore (the closure gets None) or an    *)
(* unrecoverable stream error (Err(())).                                   *)
(***************************************************************************)
Verbs == {"HELO", "EHLO", "MAIL", "RCPT", "DATA", "RSET", "VRFY", "EXPN",
          "HELP", "NOOP", "QUIT", "STARTTLS", "AUTH"}

\* A line holding this octet has parameters that do not parse.
BadParams == "MAIL FROM"

\* A line holding this octet is what the parser cannot recover from.
Garbage == "\\0"

\* The index of the first CR that an LF follows, or 0.
CrlfAt(s) ==
    LET hits == {i \in 1..(Len(s) - 1) : s[i] = CR /\ s[i + 1] = LF}
    IN  IF hits = {} THEN 0 ELSE CHOOSE i \in hits : \A j \in hits : i <= j

Classify(line) ==
    IF Len(line) = 1 /\ line[1] \in Verbs THEN line[1]
    ELSE IF Len(line) = 1 /\ line[1] = BadParams THEN "ParameterError"
    ELSE "Unrecognized"

\* [kind, cmd, rest]: kind is "None" (need more), "Err" or "Cmd"; rest is
\* the buffer after the command has been taken out of it.
ParseCommand(slice) ==
    LET i == CrlfAt(slice)
    IN  IF i = 0 THEN [kind |-> "None", cmd |-> "None", rest |-> slice]
        ELSE IF SubSeq(slice, 1, i - 1) = <<Garbage>>
        THEN [kind |-> "Err", cmd |-> "None", rest |-> slice]
        ELSE [kind |-> "Cmd", cmd |-> Classify(SubSeq(slice, 1, i - 1)),
              rest |-> RecvAdvance(slice, i + 1)]

(***************************************************************************)
(* Session states (session.rs, State / Idle / Wait / Level).               *)
(***************************************************************************)
Levels == {"Early", "Greeted", "Mail"}

WaitKinds == {"Start", "Helo", "Ehlo", "Mail", "Rcpt", "Data", "Vrfy", "Expn",
              "Help", "CheckTls", "DataComplete"}

\* State::Idle(Idle(level))
IdleAt(level) == [k |-> "Idle", level |-> level, wait |-> "None"]

\* State::Wait(kind); WaitVrfy, WaitExpn and WaitHelp carry the level.
WaitFor(kind, level) == [k |-> "Wait", level |-> level, wait |-> kind]

\* State::Data(ReadData(data))
InData == [k |-> "Data", level |-> "None", wait |-> "None"]

\* State::Dead
Dead == [k |-> "Dead", level |-> "None", wait |-> "None"]

(***************************************************************************)
(* The handler: the application behind the Protocol traits.  Each call     *)
(* takes its decision from the head of c.ds:                               *)
(*   "ok"    Final, accepting, having written its reply where it has a     *)
(*           ReplyBuf;          "okq"   the same, having written nothing;  *)
(*   "rej"   Final, rejecting, having written its reply;                   *)
(*   "rejq"  the same, having written nothing;      "defer"  Defer.        *)
(***************************************************************************)
Decisions == {"ok", "okq", "rej", "rejq", "defer"}

Accepts(d) == d \in {"ok", "okq"}

\* Configuration (config.rs), with the values of NullContext (null.rs).
Hostname == "localhost.local"
Systemname == "Cloudship"
SizeLimit == 10485760

\* The reply an accepting handler writes (as NullMail, NullProtocol do).
AcceptCode(name) ==
    CASE name \in {"verify", "expand"} -> 252 [] name = "help" -> 214 [] OTHER -> 250

AcceptStatus(name) ==
    CASE name \in {"verify", "expand"} -> <<2, 7, 0>>
      [] name = "help" -> <<2, 0, 0>>
      [] OTHER -> <<2, 1, 0>>

AcceptText(name) ==
    CASE name = "verify" -> <<"VRFY administratively disabled", CR, LF>>
      [] name = "expand" -> <<"EXPN administratively disabled", CR, LF>>
      [] name = "help" -> <<"This SMTP server eats your mail.", CR, LF>>
      [] OTHER -> <<"Ok", CR, LF>>

HandlerAccept(send, name) ==
    SendReply(send, AcceptCode(name), AcceptStatus(name), AcceptText(name))

\* The reply a rejecting handler writes.
HandlerReject(send, name) ==
    SendReply(send, 550, <<5, 7, 1>>, <<"Denied", CR, LF>>)

\* The decision of the next call.  A context whose decisions have run out
\* is starved: it needs a longer c.ds to tell what the program does.
NextDecision(c) == IF c.ds = <<>> THEN "ok" ELSE Head(c.ds)
RestDecisions(c) == IF c.ds = <<>> THEN <<>> ELSE Tail(c.ds)

\* A call into the handler that gets a ReplyBuf.  c.d is its decision.
CallWithReply(c, name) ==
    LET d == NextDecision(c)
    IN  [c EXCEPT !.ds = RestDecisions(c), !.d = d, !.starved = @ \/ c.ds = <<>>,
                  !.calls = Append(@, name),
                  !.send = CASE d = "ok" -> HandlerAccept(@, name)
                             [] d = "rej" -> HandlerReject(@, name)
                             [] OTHER -> @]

\* A call into the handler without a ReplyBuf.
CallPlain(c, name) ==
    [c EXCEPT !.ds = RestDecisions(c), !.d = NextDecision(c),
              !.starved = @ \/ c.ds = <<>>, !.calls = Append(@, name)]

\* MailHandler::reset: synchronous, no decision.
CallReset(c) == [c EXCEPT !.calls = Append(@, "reset")]

\* A handler result: Hesitant::Final(v) or Hesitant::Defer(_).  ok tells
\* Some from None and Ok from Err; st is the state v leads to.
Final(ok, st) == [f |-> "Final", ok |-> ok, st |-> st]
Defer == [f |-> "Defer", ok |-> FALSE, st |-> Dead]

\* The outcome of a step of the session: the new state and the Action.
Done(c, st, act) == [c EXCEPT !.state = st, !.act = act]


(***************************************************************************)
(* Commands (session.rs, "Helper Types for Command Processing").  Each     *)
(* operator takes and returns the context c of one call into the session:  *)
(* state, recv, send, the result hes of the handler call on the way, the   *)
(* resulting act, and what an observer keeps: calls, nrcpt, sink, dstream. *)
(***************************************************************************)

\* ---- Start
StartRecv(c) ==
    LET h == CallPlain(c, "start")
    IN  [h EXCEPT !.hes = IF h.d = "defer" THEN Defer
                          ELSE Final(Accepts(h.d), IdleAt("Early"))]

\* Variant: a refused connection gets the greeting all the same.
StartProcessGreetsAll(c) ==
    IF c.hes.f = "Defer" THEN Done(c, WaitFor("Start", "None"), "Wait")
    ELSE Done([c EXCEPT !.send = SendScribbleBytes(@,
                   <<"2", "2", "0", SP, Hostname, SP, "ESMTP", SP, Systemname, CR, LF>>)],
              IF c.hes.ok THEN IdleAt("Early") ELSE Dead,
              IF c.hes.ok THEN "Write" ELSE "Close")

StartProcess(c) ==
    IF c.hes.f = "Defer" THEN Done(c, WaitFor("Start", "None"), "Wait")
    ELSE IF c.hes.ok
    THEN Done([c EXCEPT !.send = SendScribbleBytes(@,
                   <<"2", "2", "0", SP, Hostname, SP, "ESMTP", SP, Systemname, CR, LF>>)],
              IdleAt("Early"), "Write")
    ELSE Done([c EXCEPT !.send = SendScribbleBytes(@,
                   <<"5", "5", "4", SP, "5", DOT, "5", DOT, "0", SP,
                     "Connection refused.", CR, LF>>)],
              Dead, "Close")

\* ---- Helo and Ehlo
\* Variant: hello leaves an open transaction to itself.
HelloRecvWithoutReset(c) ==
    LET h == CallPlain(c, "hello")
    IN  [h EXCEPT !.hes = IF h.d = "defer" THEN Defer
                          ELSE Final(Accepts(h.d), IdleAt("Greeted"))]

\* Helo::recv and Ehlo::recv: an open transaction is reset, then hello.
HelloRecv(c) ==
    LET base == IF c.state.level = "Mail" THEN CallReset(c) ELSE c
        h == CallPlain(base, "hello")
    IN  [h EXCEPT !.hes = IF h.d = "defer" THEN Defer
                          ELSE Final(Accepts(h.d), IdleAt("Greeted"))]

HelloRejected(c) ==
    Done([c EXCEPT !.send = ReplyScribbleBytes(ReplyNew(@, 550, NoStatus),
                                <<"Rejected for policy reasons", CR, LF>>).buf],
         Dead, "Close")

HeloProcess(c) ==
    IF c.hes.f = "Defer" THEN Done(c, WaitFor("Helo", "None"), "Wait")
    ELSE IF c.hes.ok
    THEN Done([c EXCEPT !.send = ReplyScribbleBytes(
                                     ReplyScribbleBytes(ReplyNew(@, 250, NoStatus),
                                                        <<Hostname>>),
                                     <<CR, LF>>).buf],
              IdleAt("Greeted"), "Write")
    ELSE HelloRejected(c)

\* Variant: the STARTTLS line is offered whatever the security.
EhloOffersTlsAlways(c, is_secure) ==
    IF c.hes.f = "Defer" THEN Done(c, WaitFor("Ehlo", "None"), "Wait")
    ELSE IF c.hes.ok
    THEN LET r1 == ReplyScribbleBytes(ReplyNew(c.send, 250, NoStatus), <<Hostname>>)
             r2 == ReplyScribbleBytes(r1,
                       <<CR, LF, "EXPN", CR, LF, "HELP", CR, LF, "8BITMIME", CR, LF,
                         "SIZE ">>)
             r3 == ReplyScribbleU64(r2, SizeLimit)
             r4 == ReplyScribbleBytes(r3,
                       <<CR, LF, "PIPELINING", CR, LF, "DSN", CR, LF, "ETRN", CR, LF,
                         "ENHANCEDSTATUSCODES", CR, LF, "SMTPUTF8", CR, LF>>)
             r5 == ReplyScribbleBytes(r4, <<"STARTTLS", CR, LF>>)
         IN  Done([c EXCEPT !.send = r5.buf], IdleAt("Greeted"), "Write")
    ELSE HelloRejected(c)

EhloProcess(c, is_secure) ==
    IF c.hes.f = "Defer" THEN Done(c, WaitFor("Ehlo", "None"), "Wait")
    ELSE IF c.hes.ok
    THEN LET r1 == ReplyScribbleBytes(ReplyNew(c.send, 250, NoStatus), <<Hostname>>)
             r2 == ReplyScribbleBytes(r1,
                       <<CR, LF, "EXPN", CR, LF, "HELP", CR, LF, "8BITMIME", CR, LF,
                         "SIZE ">>)
             r3 == ReplyScribbleU64(r2, SizeLimit)
             r4 == ReplyScribbleBytes(r3,
                       <<CR, LF, "PIPELINING", CR, LF, "DSN", CR, LF, "ETRN", CR, LF,
                         "ENHANCEDSTATUSCODES", CR, LF, "SMTPUTF8", CR, LF>>)
             r5 == IF ~is_secure
                   THEN ReplyScribbleBytes(r4, <<"STARTTLS", CR, LF>>) ELSE r4
         IN  Done([c EXCEPT !.send = r5.buf], IdleAt("Greeted"), "Write")
    ELSE HelloRejected(c)

\* ---- Mail
\* Mail::translate
MailTranslate(ok) == IF ok THEN IdleAt("Mail") ELSE IdleAt("Greeted")

\* What the handler's mail, or the wakeup of its Defer, comes to.
MailDecided(h) ==
    [h EXCEPT !.hes = IF h.d = "defer" THEN Defer
                      ELSE Final(TRUE, MailTranslate(Accepts(h.d))),
              !.nrcpt = IF Accepts(h.d) THEN 0 ELSE @]

\* Variant: MAIL goes to the handler at every level.
MailRecvAtAnyLevel(c) == MailDecided(CallWithReply(c, "mail"))

MailRecv(c) ==
    CASE c.state.level = "Early" ->
            [c EXCEPT !.send = SendReply(@, 503, <<5, 5, 1>>,
                                         <<"Please say 'Hello' first", CR, LF>>),
                      !.hes = Final(TRUE, IdleAt("Early"))]
      [] c.state.level = "Greeted" -> MailDecided(CallWithReply(c, "mail"))
      [] c.state.level = "Mail" ->
            [c EXCEPT !.send = SendReply(@, 503, <<5, 5, 1>>,
                                         <<"Nested MAIL command", CR, LF>>),
                      !.hes = Final(TRUE, IdleAt("Mail"))]

\* Variant: the wakeup of a deferred MAIL drops the transaction.
MailWakeupToGreeted(c) ==
    [MailDecided(CallWithReply(c, "wakeup")) EXCEPT
         !.hes = IF @.f = "Defer" THEN @ ELSE Final(TRUE, IdleAt("Greeted"))]

MailWakeup(c) == MailDecided(CallWithReply(c, "wakeup"))

MailProcess(c) ==
    IF c.hes.f = "Final" THEN Done(c, c.hes.st, "Collect")
    ELSE Done(c, WaitFor("Mail", "None"), "Wait")

\* ---- Rcpt
\* Variant: a rejected recipient ends the session.
RcptTranslateToDead(ok) == IF ok THEN IdleAt("Mail") ELSE Dead

\* Rcpt::translate
RcptTranslate(ok) == IF ok THEN IdleAt("Mail") ELSE IdleAt("Greeted")

RcptDecided(h) ==
    [h EXCEPT !.hes = IF h.d = "defer" THEN Defer
                      ELSE Final(TRUE, RcptTranslate(Accepts(h.d))),
              !.nrcpt = IF Accepts(h.d) THEN Min(@ + 1, MaxRcpt) ELSE @]

\* Variant: RCPT goes to the handler at every level.
RcptRecvAtAnyLevel(c) == RcptDecided(CallWithReply(c, "recipient"))

RcptRecv(c) ==
    CASE c.state.level = "Early" ->
            [c EXCEPT !.send = SendReply(@, 503, <<5, 5, 1>>,
                                         <<"Please say 'Hello' first", CR, LF>>),
                      !.hes = Final(TRUE, IdleAt("Early"))]
      [] c.state.level = "Greeted" ->
            [c EXCEPT !.send = SendReply(@, 503, <<5, 5, 1>>,
                                         <<"Need MAIL command first", CR, LF>>),
                      !.hes = Final(TRUE, IdleAt("Greeted"))]
      [] c.state.level = "Mail" -> RcptDecided(CallWithReply(c, "recipient"))

RcptWakeup(c) == RcptDecided(CallWithReply(c, "wakeup"))

RcptProcess(c) ==
    IF c.hes.f = "Final" THEN Done(c, c.hes.st, "Collect")
    ELSE Done(c, WaitFor("Rcpt", "None"), "Wait")

\* ---- Data
\* Data::translate: Ok(data) stays, Err(session) becomes Err(Idle::greeted).
DataDecided(h) ==
    [h EXCEPT !.hes = IF h.d = "defer" THEN Defer
                      ELSE IF Accepts(h.d) THEN Final(TRUE, InData)
                      ELSE Final(FALSE, IdleAt("Greeted"))]

DataRecv(c) ==
    CASE c.state.level = "Early" ->
            [c EXCEPT !.send = SendReply(@, 503, <<5, 5, 1>>,
                                         <<"Please say 'Hello' first", CR, LF>>),
                      !.hes = Final(FALSE, IdleAt("Early"))]
      [] c.state.level = "Greeted" ->
            [c EXCEPT !.send = SendReply(@, 503, <<5, 5, 1>>,
                                         <<"Need MAIL command first", CR, LF>>),
                      !.hes = Final(FALSE, IdleAt("Greeted"))]
      [] c.state.level = "Mail" -> DataDecided(CallPlain(c, "data"))

DataWakeup(c) == DataDecided(CallPlain(c, "wakeup"))

\* What an observer keeps of a DataSink: the octets of its chunks, the
\* number of calls of complete, whether a chunk came after a complete, and
\* the receive buffer as the complete left it.
NoSink == [open |-> FALSE, bytes |-> <<>>, completes |-> 0, late |-> FALSE,
           left |-> <<>>]

\* The DataSink a Final(Ok(data)) hands over starts empty; the client's
\* octets from here on are its message data.
DataProcess(c) ==
    IF c.hes.f = "Defer" THEN Done(c, WaitFor("Data", "None"), "Wait")
    ELSE IF c.hes.ok
    THEN Done([c EXCEPT !.send = ReplyScribbleBytes(ReplyNew(@, 354, NoStatus),
                                                    <<"Go ahead.", CR, LF>>).buf,
                        !.sink = [NoSink EXCEPT !.open = TRUE],
                        !.dstream = c.recv],
              InData, "Write")
    ELSE Done([c EXCEPT !.send = SendReply(@, 554, <<5, 5, 0>>,
                                           <<"Mail failed", CR, LF>>)],
              c.hes.st, "Write")

\* ---- Rset
\* Variant: RSET answers and leaves the transaction open.
RsetKeepsTransaction(c) ==
    Done([c EXCEPT !.send = SendReply(@, 250, <<2, 0, 0>>, <<"Ok", CR, LF>>)],
         c.state, "Collect")

RsetRecv(c) ==
    LET replied == [c EXCEPT !.send = SendReply(@, 250, <<2, 0, 0>>, <<"Ok", CR, LF>>)]
    IN  IF c.state.level = "Mail"
        THEN Done(CallReset(replied), IdleAt("Greeted"), "Collect")
        ELSE Done(replied, c.state, "Collect")

\* ---- Vrfy, Expn, Help: the level goes through the call unchanged.
AncillaryKind(cmd) ==
    CASE cmd = "VRFY" -> "Vrfy" [] cmd = "EXPN" -> "Expn" [] cmd = "HELP" -> "Help"

AncillaryName(kind) ==
    CASE kind = "Vrfy" -> "verify" [] kind = "Expn" -> "expand" [] kind = "Help" -> "help"

\* Vrfy::recv, Expn::recv, Help::recv at the given level.
AncillaryRecv(c, kind, level) ==
    LET h == CallWithReply(c, AncillaryName(kind))
    IN  [h EXCEPT !.hes = IF h.d = "defer" THEN Defer ELSE Final(TRUE, IdleAt(level))]

AncillaryWakeup(c, kind, level) ==
    LET h == [CallWithReply(c, AncillaryName(kind)) EXCEPT
                  !.calls = Append(c.calls, "wakeup")]
    IN  [h EXCEPT !.hes = IF h.d = "defer" THEN Defer ELSE Final(TRUE, IdleAt(level))]

\* Variant: a final decision on VRFY, EXPN or HELP ends a transaction.
AncillaryProcessDropsMail(c, kind, level) ==
    IF c.hes.f = "Final"
    THEN Done(c, IF level = "Mail" THEN IdleAt("Greeted") ELSE c.hes.st, "Write")
    ELSE Done(c, WaitFor(kind, level), "Wait")

\* Vrfy::process, Expn::process, Help::process (HELP_ACTION is Write).
AncillaryProcess(c, kind, level) ==
    IF c.hes.f = "Final" THEN Done(c, c.hes.st, "Write")
    ELSE Done(c, WaitFor(kind, level), "Wait")

\* ---- CheckTls
CheckTlsDecided(h) ==
    [h EXCEPT !.hes = IF h.d = "defer" THEN Defer
                      ELSE Final(Accepts(h.d), IdleAt("Early"))]

\* Variant: check_tls is asked with the transaction left open.
CheckTlsRecvKeepsMail(c) == CheckTlsDecided(CallPlain(c, "check_tls"))

CheckTlsRecv(c) ==
    LET base == IF c.state.level = "Mail" THEN CallReset(c) ELSE c
    IN  CheckTlsDecided(CallPlain(base, "check_tls"))

CheckTlsWakeup(c) == CheckTlsDecided(CallPlain(c, "wakeup"))

CheckTlsProcess(c) ==
    IF c.hes.f = "Defer" THEN Done(c, WaitFor("CheckTls", "None"), "Wait")
    ELSE IF c.hes.ok THEN Done(c, IdleAt("Early"), "Read")
    ELSE Done(c, Dead, "Read")

\* ---- DataComplete
SinkComplete(sink) == [sink EXCEPT !.completes = @ + 1]

DataCompleteDecided(h) ==
    [h EXCEPT !.hes = IF h.d = "defer" THEN Defer ELSE Final(TRUE, IdleAt("Greeted"))]

DataCompleteRecv(c) ==
    DataCompleteDecided([CallWithReply(c, "complete") EXCEPT
                             !.sink = [SinkComplete(@) EXCEPT !.left = c.recv]])

DataCompleteWakeup(c) == DataCompleteDecided(CallWithReply(c, "wakeup"))

DataCompleteProcess(c) ==
    IF c.hes.f = "Final" THEN Done(c, IdleAt("Greeted"), "Collect")
    ELSE Done(c, WaitFor("DataComplete", "None"), "Wait")


(***************************************************************************)
(* ReadData, Idle, Wait and Session (session.rs).                          *)
(***************************************************************************)
\* DataHandler::chunk: the sink takes the octets; late records a chunk
\* that comes after complete.
SinkChunk(sink, bytes) ==
    [sink EXCEPT !.bytes = @ \o bytes, !.late = @ \/ sink.completes > 0]

\* Variant: message data ends the session.
ReadDataRecvGivesUp(c) == Done(c, Dead, "Close")

\* Variant: the end of data goes to the sink with the data.
ReadDataRecvForwardsEnd(c) ==
    IF FindDataEnd(c.recv) >= 0
    THEN DataCompleteProcess(DataCompleteRecv(
             [c EXCEPT !.sink = SinkChunk(@, SubSeq(c.recv, 1, FindDataEnd(c.recv) + DataEndLen)),
                       !.recv = RecvAdvance(@, FindDataEnd(c.recv) + DataEndLen)]))
    ELSE Done(c, InData, "Read")

\* Variant: every read of message data is acknowledged.
ReadDataRecvAcks(c) ==
    LET idx == FindDataEnd(c.recv)
        end == IF Len(c.recv) >= Retain THEN Len(c.recv) - Retain ELSE 0
    IN  IF idx >= 0
        THEN DataCompleteProcess(DataCompleteRecv(
                 [c EXCEPT !.sink = SinkChunk(@, SubSeq(c.recv, 1, idx)),
                           !.recv = RecvAdvance(@, idx + DataEndLen)]))
        ELSE Done([c EXCEPT !.sink = SinkChunk(@, SubSeq(c.recv, 1, end)),
                            !.recv = RecvAdvance(@, end),
                            !.send = SendReply(@, 250, <<2, 0, 0>>, <<"Ok", CR, LF>>)],
                  InData, "Read")

\* ReadData::recv
ReadDataRecv(c) ==
    LET idx == FindDataEnd(c.recv)
    IN  IF idx >= 0
        THEN DataCompleteProcess(DataCompleteRecv(
                 [c EXCEPT !.sink = SinkChunk(@, SubSeq(c.recv, 1, idx)),
                           !.recv = RecvAdvance(@, idx + DataEndLen)]))
        ELSE LET end == IF Len(c.recv) >= Retain THEN Len(c.recv) - Retain ELSE 0
                 fed == IF Len(c.recv) >= Retain
                        THEN [c EXCEPT !.sink = SinkChunk(@, SubSeq(c.recv, 1, end))]
                        ELSE c
             IN  Done([fed EXCEPT !.recv = RecvAdvance(@, end)], InData, "Read")

\* Variant: STARTTLS is accepted whatever the security.
StartTlsAlways(c, is_secure) ==
    Done([c EXCEPT !.send = SendReply(@, 220, <<2, 7, 0>>,
                                     <<"Ready to start TLS", CR, LF>>)],
         c.state, "StartTls")

\* Variant: STARTTLS puts the session at level Greeted.
StartTlsToGreeted(c, is_secure) ==
    IF is_secure
    THEN Done([c EXCEPT !.send = SendReply(@, 500, <<5, 5, 2>>,
                                     <<"Unrecognized command", CR, LF>>)],
              c.state, "Write")
    ELSE Done([c EXCEPT !.send = SendReply(@, 220, <<2, 7, 0>>,
                                     <<"Ready to start TLS", CR, LF>>)],
              IdleAt("Greeted"), "StartTls")

\* The arm Some(Command::StartTls) of the match in Idle::recv.
StartTlsCommand(c, is_secure) ==
    IF is_secure
    THEN Done([c EXCEPT !.send = SendReply(@, 500, <<5, 5, 2>>,
                                     <<"Unrecognized command", CR, LF>>)],
              c.state, "Write")
    ELSE Done([c EXCEPT !.send = SendReply(@, 220, <<2, 7, 0>>,
                                     <<"Ready to start TLS", CR, LF>>)],
              c.state, "StartTls")

\* The arms of the match in Idle::recv for a parsed command.
IdleCommand(c, cmd, is_secure) ==
    CASE cmd = "HELO" -> HeloProcess(HelloRecv(c))
      [] cmd = "EHLO" -> EhloProcess(HelloRecv(c), is_secure)
      [] cmd = "MAIL" -> MailProcess(MailRecv(c))
      [] cmd = "RCPT" -> RcptProcess(RcptRecv(c))
      [] cmd = "DATA" -> DataProcess(DataRecv(c))
      [] cmd = "RSET" -> RsetRecv(c)
      [] cmd \in {"VRFY", "EXPN", "HELP"} ->
            AncillaryProcess(AncillaryRecv(c, AncillaryKind(cmd), c.state.level),
                             AncillaryKind(cmd), c.state.level)
      [] cmd = "NOOP" ->
            Done([c EXCEPT !.send = SendReply(@, 250, <<2, 2, 0>>, <<"Ok", CR, LF>>)],
                 c.state, "Write")
      [] cmd = "QUIT" ->
            Done([c EXCEPT !.send = SendReply(@, 221, <<2, 0, 0>>, <<"Bye", CR, LF>>)],
                 Dead, "Close")
      [] cmd = "STARTTLS" -> StartTlsCommand(c, is_secure)
      [] cmd \in {"AUTH", "Unrecognized"} ->
            Done([c EXCEPT !.send = SendReply(@, 500, <<5, 5, 2>>,
                                        <<"Unrecognized command.", CR, LF>>)],
                 c.state, "Write")
      [] cmd = "ParameterError" ->
            Done([c EXCEPT !.send = SendReply(@, 501, <<5, 5, 4>>,
                                        <<"Error in command parameters.", CR, LF>>)],
                 c.state, "Write")

\* Variant: a Dead session tells everything but QUIT to leave.
DeadCommandLeaveNow(c, cmd) ==
    IF cmd = "QUIT"
    THEN Done([c EXCEPT !.send = SendReply(@, 221, <<2, 0, 0>>, <<"Bye", CR, LF>>)],
              Dead, "Close")
    ELSE Done([c EXCEPT !.send = SendReply(@, 503, <<5, 5, 1>>,
                                           <<"Please leave now", CR, LF>>)],
              Dead, "Write")

\* Variant: a greeting from the client revives a Dead session.
DeadCommandRevives(c, cmd) ==
    CASE cmd = "QUIT" ->
            Done([c EXCEPT !.send = SendReply(@, 221, <<2, 0, 0>>, <<"Bye", CR, LF>>)],
                 Dead, "Close")
      [] cmd = "Unrecognized" ->
            Done([c EXCEPT !.send = SendReply(@, 500, <<5, 5, 2>>,
                                        <<"Unrecognized command.", CR, LF>>)],
                 Dead, "Write")
      [] cmd = "ParameterError" ->
            Done([c EXCEPT !.send = SendReply(@, 501, <<5, 5, 4>>,
                                        <<"Error in command parameters.", CR, LF>>)],
                 Dead, "Write")
      [] cmd \in {"HELO", "EHLO"} ->
            Done([c EXCEPT !.send = SendReply(@, 503, <<5, 5, 1>>,
                                        <<"Please leave now", CR, LF>>)],
                 IdleAt("Early"), "Write")
      [] OTHER ->
            Done([c EXCEPT !.send = SendReply(@, 503, <<5, 5, 1>>,
                                        <<"Please leave now", CR, LF>>)],
                 Dead, "Write")

\* The arms of the match in Session::recv_dead for a parsed command.
DeadCommand(c, cmd) ==
    CASE cmd = "QUIT" ->
            Done([c EXCEPT !.send = SendReply(@, 221, <<2, 0, 0>>, <<"Bye", CR, LF>>)],
                 Dead, "Close")
      [] cmd = "Unrecognized" ->
            Done([c EXCEPT !.send = SendReply(@, 500, <<5, 5, 2>>,
                                        <<"Unrecognized command.", CR, LF>>)],
                 Dead, "Write")
      [] cmd = "ParameterError" ->
            Done([c EXCEPT !.send = SendReply(@, 501, <<5, 5, 4>>,
                                        <<"Error in command parameters.", CR, LF>>)],
                 Dead, "Write")
      [] OTHER ->
            Done([c EXCEPT !.send = SendReply(@, 503, <<5, 5, 1>>,
                                        <<"Please leave now", CR, LF>>)],
                 Dead, "Write")

\* A mail transaction is open: the level is Mail, or a decision on RCPT or
\* DATA is awaited.
HasTxn(st) == st.level = "Mail" \/ (st.k = "Wait" /\ st.wait \in {"Rcpt", "Data"})

\* What an observer notes of one unit of work of the session: the command
\* (or "body", "wakeup", "confirm_tls"), the state before and after, the
\* accepted recipients before and after, the handler calls made and the
\* decision of the last of them, the octets the receive buffer held before
\* the event and how many it holds afterwards, the octets appended to the
\* send buffer, the octets handed to the sink, and the Action.
Noted(what, before, after) ==
    [after EXCEPT !.log = Append(@,
        [cmd |-> what, pre |-> before.state, post |-> after.state,
         nrcpt |-> IF HasTxn(before.state) THEN before.nrcpt ELSE 0,
         nrcpt2 |-> IF HasTxn(after.state) THEN after.nrcpt ELSE 0,
         calls |-> after.calls, d |-> after.d,
         out |-> SubSeq(after.send.inner, Len(before.send.inner) + 1,
                        Len(after.send.inner)),
         fed |-> SubSeq(after.sink.bytes, Len(before.sink.bytes) + 1,
                        Len(after.sink.bytes)),
         secure |-> before.tls = "Secure", had |-> before.had,
         rest |-> Len(after.recv), act |-> after.act])]

Fresh(c) == [c EXCEPT !.calls = <<>>]

\* Idle::recv
IdleRecv(c, is_secure) ==
    LET res == ParseCommand(c.recv)
    IN  CASE res.kind = "None" -> Done(c, c.state, "Read")
          [] res.kind = "Err" -> Noted("Err", c, Done(Fresh(c), Dead, "Close"))
          [] res.kind = "Cmd" ->
                Noted(res.cmd, c,
                      IdleCommand([Fresh(c) EXCEPT !.recv = res.rest], res.cmd, is_secure))

\* Session::recv_dead
RecvDead(c) ==
    LET res == ParseCommand(c.recv)
    IN  CASE res.kind = "None" -> Done(c, Dead, "Write")
          [] res.kind = "Err" -> Noted("Err", c, Done(Fresh(c), Dead, "Close"))
          [] res.kind = "Cmd" ->
                Noted(res.cmd, c,
                      DeadCommand([Fresh(c) EXCEPT !.recv = res.rest], res.cmd))

\* Wait::wakeup
WaitWakeup(c, is_secure) ==
    LET kind == c.state.wait
        level == c.state.level
    IN  CASE kind = "Start" -> StartProcess(
                 LET h == CallPlain(c, "wakeup")
                 IN  [h EXCEPT !.hes = IF h.d = "defer" THEN Defer
                                       ELSE Final(Accepts(h.d), IdleAt("Early"))])
          [] kind \in {"Helo", "Ehlo"} ->
                 LET h == CallPlain(c, "wakeup")
                     w == [h EXCEPT !.hes = IF h.d = "defer" THEN Defer
                                            ELSE Final(Accepts(h.d), IdleAt("Greeted"))]
                 IN  IF kind = "Helo" THEN HeloProcess(w) ELSE EhloProcess(w, is_secure)
          [] kind = "Mail" -> MailProcess(MailWakeup(c))
          [] kind = "Rcpt" -> RcptProcess(RcptWakeup(c))
          [] kind = "Data" -> DataProcess(DataWakeup(c))
          [] kind \in {"Vrfy", "Expn", "Help"} ->
                 AncillaryProcess(AncillaryWakeup(c, kind, level), kind, level)
          [] kind = "CheckTls" -> CheckTlsProcess(CheckTlsWakeup(c))
          [] kind = "DataComplete" -> DataCompleteProcess(DataCompleteWakeup(c))

\* Session::new
SessionNew(c) == Noted("start", c, StartProcess(StartRecv(Fresh(c))))

\* Variant: a read wakes a waiting session.
SessionRecvWakesWait(c, is_secure) ==
    CASE c.state.k = "Idle" -> IdleRecv(c, is_secure)
      [] c.state.k = "Wait" -> Noted("recv", c, WaitWakeup(Fresh(c), is_secure))
      [] c.state.k = "Data" -> Noted("body", c, ReadDataRecv(Fresh(c)))
      [] c.state.k = "Dead" -> RecvDead(c)

\* Session::recv
SessionRecv(c, is_secure) ==
    CASE c.state.k = "Idle" -> IdleRecv(c, is_secure)
      [] c.state.k = "Wait" -> Done(c, c.state, "Wait")
      [] c.state.k = "Data" -> Noted("body", c, ReadDataRecv(Fresh(c)))
      [] c.state.k = "Dead" -> RecvDead(c)

\* Session::wakeup
SessionWakeup(c, is_secure) ==
    IF c.state.k = "Wait"
    THEN Noted("wakeup", c, WaitWakeup(Fresh(c), is_secure))
    ELSE Done(c, c.state, "Read")

\* Session::confirm_tls; outside Idle it runs into unreachable!().
SessionConfirmTls(c) ==
    IF c.state.k = "Idle"
    THEN Noted("confirm_tls", c, CheckTlsProcess(CheckTlsRecv(Fresh(c))))
    ELSE Done(c, c.state, "Panic")


(***************************************************************************)
(* Transport (transport.rs).  A plot is [p, then]; conn tells whether the  *)
(* connection is still with the event loop ("open"), was removed           *)
(* ("removed"), ran into unreachable!() ("panic") or is in a chain of      *)
(* calls that never returns ("hung").                                      *)
(***************************************************************************)
PlotRead == [p |-> "Read", then |-> "None"]
PlotWait == [p |-> "Wait", then |-> "None"]
PlotWrite(then) == [p |-> "Write", then |-> then]

\* Plot::from
PlotFrom(action) ==
    CASE action = "Read" -> PlotRead
      [] action = "Wait" -> PlotWait
      [] action = "Write" -> PlotWrite("Read")
      [] action = "Collect" -> PlotWrite("Read")
      [] action = "StartTls" -> PlotWrite("StartTls")
      [] action = "Close" -> PlotWrite("Close")

\* Transport::next_plot
NextPlot(t, plot) == [t EXCEPT !.plot = plot]

\* Variant: a connection is told before it is removed.
RemoveWithNotice(t) ==
    [t EXCEPT !.conn = "removed",
              !.send = SendReply(@, 421, <<4, 3, 0>>, <<"Closing", CR, LF>>)]

\* Next::remove()
Remove(t) == [t EXCEPT !.conn = "removed"]

RECURSIVE TransportRecv(_, _)

\* Variant: the handshake starts over the buffers as they are.
AndThenKeepsBuffers(t, then, fuel) ==
    CASE then = "Read" -> TransportRecv(t, fuel)
      [] then = "StartTls" ->
            IF ~t.hsok THEN Remove(t)
            ELSE NextPlot([t EXCEPT !.tls = "Handshake"], PlotRead)
      [] then = "Close" -> Remove(t)

\* Transport::and_then.  t.hsok is whether sock.accept_secure() succeeds.
AndThen(t, then, fuel) ==
    CASE then = "Read" -> TransportRecv(t, fuel)
      [] then = "StartTls" ->
            IF ~t.hsok THEN Remove([t EXCEPT !.recv = <<>>, !.send = SendBufNew])
            ELSE NextPlot([t EXCEPT !.recv = <<>>, !.send = SendBufNew,
                                    !.tls = "Handshake"], PlotRead)
      [] then = "Close" -> Remove(t)

\* Variant: Action::Close removes the connection at once.
RecvMatchClosesAtOnce(s, fuel) ==
    IF s.act = "Collect" /\ s.recv # <<>> THEN TransportRecv(s, fuel - 1)
    ELSE IF s.act = "Close" THEN Remove(s)
    ELSE IF PlotFrom(s.act).p \in {"Read", "Wait"} THEN NextPlot(s, PlotFrom(s.act))
    ELSE IF SendIsEmpty(s.send) THEN AndThen(s, PlotFrom(s.act).then, fuel - 1)
    ELSE NextPlot(s, PlotFrom(s.act))

\* Transport::recv from "match action" on: s is the transport with what
\* Session::recv made of session, recv and send, s.act the Action.
RecvMatch(s, fuel) ==
    IF s.act = "Collect" /\ s.recv # <<>> THEN TransportRecv(s, fuel - 1)
    ELSE IF PlotFrom(s.act).p \in {"Read", "Wait"} THEN NextPlot(s, PlotFrom(s.act))
    ELSE IF SendIsEmpty(s.send) THEN AndThen(s, PlotFrom(s.act).then, fuel - 1)
    ELSE NextPlot(s, PlotFrom(s.act))

\* Transport::recv.  fuel bounds the depth of the chain of calls; a chain
\* that uses it up makes no progress and never returns.
TransportRecv(t, fuel) ==
    IF fuel = 0 THEN [t EXCEPT !.conn = "hung"]
    ELSE RecvMatch(SessionRecv(t, t.tls = "Secure"), fuel)

Fuel(t) == Len(t.recv) + FuelSlack

\* Transport::confirm_tls from "match plot" on.
ConfirmMatch(s) ==
    IF s.act = "Panic" THEN [s EXCEPT !.conn = "panic"]
    ELSE CASE PlotFrom(s.act).p = "Wait" -> NextPlot(s, PlotFrom(s.act))
           [] OTHER -> AndThen(s, IF PlotFrom(s.act).p = "Read" THEN "Read"
                                  ELSE PlotFrom(s.act).then, Fuel(s))

\* Transport::confirm_tls
TransportConfirmTls(t) == ConfirmMatch(SessionConfirmTls([t EXCEPT !.tls = "Secure"]))

\* TransportHandler::create
TransportCreate(t) ==
    LET s == SessionNew(t)
    IN  [s EXCEPT !.plot = PlotFrom(s.act), !.tls = "Clear"]

\* After a successful read or write: on to Transport::confirm_tls or
\* Transport::recv or Transport::and_then, or nothing.
Onward(t, then) ==
    CASE then = "ConfirmTls" -> TransportConfirmTls(t)
      [] then = "Stay" -> t
      [] OTHER -> AndThen(t, then, Fuel(t))

\* Variant: every read on a connection that left Clear confirms TLS.
TransportReadableConfirmsAgain(t, r) ==
    CASE r.kind \in {"Eof", "Err"} -> Remove(t)
      [] r.kind = "None" -> t
      [] r.kind = "Some" ->
            Onward([t EXCEPT !.recv = @ \o r.chunk,
                             !.dstream = IF t.sink.open /\ t.sink.completes = 0
                                         THEN @ \o r.chunk ELSE @],
                   IF t.tls # "Clear" THEN "ConfirmTls" ELSE "Read")

\* TransportHandler::readable.  r is what RecvBuf::try_read did: [kind,
\* chunk] with kind "Eof" (Ok(Some(0))), "Err", "None" or "Some".
TransportReadable(t, r) ==
    CASE r.kind \in {"Eof", "Err"} -> Remove(t)
      [] r.kind = "None" -> t
      [] r.kind = "Some" ->
            Onward([t EXCEPT !.recv = @ \o r.chunk,
                             !.dstream = IF t.sink.open /\ t.sink.completes = 0
                                         THEN @ \o r.chunk ELSE @],
                   IF t.tls = "Handshake" THEN "ConfirmTls" ELSE "Read")

\* TransportHandler::writable from "match self.send.try_write" on.
WriteMatch(s, res) ==
    CASE res = "Err" -> Remove(s)
      [] res = "False" -> s
      [] res = "True" ->
            Onward(s, CASE s.plot.p = "Read" -> "Read"
                        [] s.plot.p = "Wait" -> "Stay"
                        [] s.plot.p = "Write" -> s.plot.then)

\* TransportHandler::writable.  w is what try_write_buf did.
TransportWritable(t, w) ==
    WriteMatch([t EXCEPT !.send = SendTryWrite(t.send, w).buf],
               SendTryWrite(t.send, w).res)

\* Variant: after a wakeup the transport waits for the client.
WakeupMatchReads(s) == NextPlot(s, PlotRead)

\* TransportHandler::wakeup from "match plot" on.
WakeupMatch(s) ==
    CASE PlotFrom(s.act).p = "Read" -> AndThen(s, "Read", Fuel(s))
      [] PlotFrom(s.act).p = "Wait" -> NextPlot(s, PlotFrom(s.act))
      [] PlotFrom(s.act).p = "Write" ->
            IF SendIsEmpty(s.send) THEN AndThen(s, PlotFrom(s.act).then, Fuel(s))
            ELSE NextPlot(s, PlotFrom(s.act))

\* TransportHandler::wakeup
TransportWakeup(t) == WakeupMatch(SessionWakeup(t, t.tls = "Secure"))

(***************************************************************************)
(* One connection under the event loop.  The variables are the fields of   *)
(* Transport and Session, whether the event loop still has the connection, *)
(* and what an observer keeps: the accepted recipients, the DataSink, the  *)
(* client's message data, and the log of the last event.  reply is a Reply  *)
(* in the making on the send buffer, for SpecReply; the session writes its  *)
(* replies inside one event and has none in the making between events.     *)
(* fifo is what an observer of the send buffer alone keeps, for SpecSend.   *)
(* legacy is the Session and the Direction of a smtp::daemon Connection,   *)
(* with what an observer keeps of its last step, for SpecLegacy.           *)
(***************************************************************************)
VARIABLES state, tls, plot, conn, recv, send, nrcpt, sink, dstream, log, reply,
          fifo, legacy

vars == <<state, tls, plot, conn, recv, send, nrcpt, sink, dstream, log, reply,
          fifo, legacy>>

\* No smtp::daemon Connection.  Otherwise: the State of its Session, its
\* Direction, and of its last step the command (cmd), the State before it
\* (pre) and the octets it appended to the send buffer (out).
NoLegacy == [state |-> "none", direction |-> "none", cmd |-> "none",
             pre |-> "none", out |-> <<>>]

\* What an observer of a SendBuf keeps: the octets appended and the octets
\* the transport took, each in order; the last call (op) with, for a
\* try_write, its result (res), what try_write_buf did (took) and the
\* number of unwritten octets it found (left).
NoFifo == [appended |-> <<>>, taken |-> <<>>, op |-> "none", res |-> "none",
           took |-> "none", left |-> 0]

\* No Reply is in the making.
NoReply == [r |-> ReplyNew(SendBufNew, 200, NoStatus), start |-> 0, w |-> "none"]

\* The most octets the receive buffer holds.
MaxRecv == 6

\* The most octets of unsent replies over which a client sends on.
MaxSend == 30

\* The context at the start of an event: ds are the decisions the handler
\* will take, hsok whether a TLS accept will succeed.  A finished DataSink
\* is forgotten.
Ctx(ds, hsok) ==
    [state |-> state, tls |-> tls, plot |-> plot, conn |-> conn, recv |-> recv,
     send |-> send, nrcpt |-> nrcpt,
     sink |-> IF sink.completes > 0 THEN NoSink ELSE sink,
     dstream |-> IF sink.completes > 0 THEN <<>> ELSE dstream,
     log |-> <<>>, ds |-> ds, d |-> "ok", calls |-> <<>>, hes |-> Defer,
     act |-> "Read", hsok |-> hsok, starved |-> FALSE, had |-> Len(recv)]

\* The context before construction.
Blank(ds) ==
    [state |-> Dead, tls |-> "Clear", plot |-> PlotRead, conn |-> "open",
     recv |-> <<>>, send |-> SendBufNew, nrcpt |-> 0, sink |-> NoSink,
     dstream |-> <<>>, log |-> <<>>, ds |-> ds, d |-> "ok", calls |-> <<>>,
     hes |-> Defer, act |-> "Read", hsok |-> TRUE, starved |-> FALSE, had |-> 0]

Commit(t) ==
    /\ state' = t.state
    /\ tls' = t.tls
    /\ plot' = t.plot
    /\ conn' = t.conn
    /\ recv' = t.recv
    /\ send' = t.send
    /\ nrcpt' = IF HasTxn(t.state) THEN t.nrcpt ELSE 0
    /\ sink' = t.sink
    /\ dstream' = t.dstream
    /\ log' = t.log
    /\ reply' = reply
    /\ fifo' = fifo
    /\ legacy' = legacy

Settled(t) ==
    /\ state = t.state
    /\ tls = t.tls
    /\ plot = t.plot
    /\ conn = t.conn
    /\ recv = t.recv
    /\ send = t.send
    /\ nrcpt = (IF HasTxn(t.state) THEN t.nrcpt ELSE 0)
    /\ sink = t.sink
    /\ dstream = t.dstream
    /\ log = t.log

\* An event: readable with what try_read did, writable with what
\* try_write_buf did and whether a TLS accept would succeed, or wakeup.
ReadEvent(kind, chunk) ==
    [type |-> "readable", kind |-> kind, chunk |-> chunk, n |-> 0, hsok |-> TRUE]
WriteEvent(w, hsok) ==
    [type |-> "writable", kind |-> w.kind, chunk |-> <<>>, n |-> w.n, hsok |-> hsok]
WakeupEvent ==
    [type |-> "wakeup", kind |-> "None", chunk |-> <<>>, n |-> 0, hsok |-> TRUE]

\* The handler of the event in the current state, the handler deciding ds.
Run(ev, ds) ==
    CASE ev.type = "readable" -> TransportReadable(Ctx(ds, ev.hsok), ev)
      [] ev.type = "writable" -> TransportWritable(Ctx(ds, ev.hsok), ev)
      [] ev.type = "wakeup" -> TransportWakeup(Ctx(ds, ev.hsok))

\* All outcomes of the event: one for each way the handler can decide the
\* calls the event makes, the decisions drawn from menu.
RECURSIVE Outcomes(_, _, _)

Decided(t, ev, menu, ds) ==
    IF t.starved THEN UNION {Outcomes(ev, menu, Append(ds, d)) : d \in menu}
    ELSE {t}

Outcomes(ev, menu, ds) == Decided(Run(ev, ds), ev, menu, ds)

\* What a client sends.
Line(v) == <<v, CR, LF>>

ClientLines == {Line(v) : v \in Verbs \cup {BadParams, "XYZZY", Garbage}}

Pipelines ==
    { Line("MAIL") \o Line("RCPT"),
      Line("MAIL") \o Line("RCPT") \o Line("DATA"),
      Line("RCPT") \o Line("DATA"),
      Line("MAIL") \o Line("NOOP"),
      Line("STARTTLS") \o Line("NOOP"),
      Line("QUIT") \o Line("NOOP"),
      Line("RSET") \o Line("QUIT"),
      Line("RSET") \o Line("RCPT") }

Fragments == { <<"NOOP">>, <<CR, LF>> }

BodyLines == { DataEnd, <<DOT, CR, LF>>, Line("QUIT"), <<CR, LF>> }

\* What a client sends on while the session waits for a decision.
WaitChunks == { Line("RCPT"), Line("DATA"), Line("NOOP"), Line("QUIT"), <<"NOOP">> }

\* The client of Spec: any command line, some pipelines and pieces of
\* lines; message data once the session reads data.
CmdChunks == CASE state.k = "Data" -> BodyLines
               [] state.k = "Wait" -> WaitChunks
               [] OTHER -> ClientLines \cup Pipelines \cup Fragments

\* Init: TransportHandler::create has run.
Init ==
    /\ \E d \in Decisions : Settled(TransportCreate(Blank(<<d>>)))
    /\ reply = NoReply
    /\ fifo = NoFifo
    /\ legacy = NoLegacy

\* The client keeps to the bounds.
Fits(chunk) ==
    /\ Len(send.inner) <= MaxSend
    /\ IF sink.open /\ sink.completes = 0
       THEN Len(dstream) + Len(chunk) <= MaxBody
       ELSE Len(recv) + Len(chunk) <= MaxRecv

\* readable, try_read gave Ok(Some(n)), n > 0.
ReadSome(chunks, menu) ==
    /\ conn = "open"
    /\ plot.p \in {"Read", "Wait"}
    /\ \E chunk \in chunks :
         /\ Fits(chunk)
         /\ \E t \in Outcomes(ReadEvent("Some", chunk), menu, <<>>) : Commit(t)

\* readable, try_read gave Ok(None).
ReadNone ==
    /\ conn = "open"
    /\ plot.p \in {"Read", "Wait"}
    /\ \E t \in Outcomes(ReadEvent("None", <<>>), {}, <<>>) : Commit(t)

\* readable, try_read gave Ok(Some(0)) or Err.
ReadEnd ==
    /\ conn = "open"
    /\ plot.p \in {"Read", "Wait"}
    /\ \E kind \in {"Eof", "Err"} :
         \E t \in Outcomes(ReadEvent(kind, <<>>), {}, <<>>) : Commit(t)

\* What try_write_buf can do with the send buffer: fail, take nothing,
\* take all of it, or, once per drain, take a part of it.
WriteOutcomes ==
    LET left == Len(send.inner) - send.pos
    IN  {[kind |-> "Err", n |-> 0], [kind |-> "None", n |-> 0],
         [kind |-> "Some", n |-> left]}
        \cup {[kind |-> "Some", n |-> n] :
                 n \in IF send.pos = 0 THEN 1..Min(MaxPartial, left - 1) ELSE {}}

\* writable
Writable(menu) ==
    /\ conn = "open"
    /\ plot.p = "Write"
    /\ \E w \in WriteOutcomes, hsok \in BOOLEAN :
         \E t \in Outcomes(WriteEvent(w, hsok), menu, <<>>) : Commit(t)

\* wakeup, after the handler has fired the notifier of a Defer.
Wakeup(menu) ==
    /\ conn = "open"
    /\ state.k = "Wait"
    /\ \E t \in Outcomes(WakeupEvent, menu, <<>>) : Commit(t)

Next ==
    \/ ReadSome(CmdChunks, Decisions)
    \/ ReadNone
    \/ ReadEnd
    \/ Writable(Decisions)
    \/ Wakeup(Decisions)

Spec == Init /\ [][Next]_vars

(***************************************************************************)
(* SpecWake: Spec with a handler that fires its notifier at any time, also *)
(* when no decision is awaited: spuriously, or once more after the wakeup  *)
(* that brought its decision.                                              *)
(***************************************************************************)
\* wakeup, the session not being in Wait.
StrayWakeup(menu) ==
    /\ conn = "open"
    /\ state.k # "Wait"
    /\ \E t \in Outcomes(WakeupEvent, menu, <<>>) : Commit(t)

\* The client of SpecWake: a session with STARTTLS, a transaction and
\* QUIT, some of it pipelined; message data once the session reads data.
WakeLines ==
    {Line(v) : v \in {"EHLO", "MAIL", "RCPT", "DATA", "NOOP", "QUIT", "STARTTLS"}}
    \cup {Line("STARTTLS") \o Line("NOOP"), Line("QUIT") \o Line("NOOP"), <<"NOOP">>}

WakeChunks == CASE state.k = "Data" -> BodyLines
                [] state.k = "Wait" -> {Line("NOOP")}
                [] OTHER -> WakeLines

\* The handler of SpecWake accepts, rejects or defers.
Wakeful == {"ok", "rej", "defer"}

NextWake ==
    \/ ReadSome(WakeChunks, Wakeful)
    \/ ReadNone
    \/ ReadEnd
    \/ Writable(Wakeful)
    \/ Wakeup(Wakeful)
    \/ StrayWakeup(Wakeful)

SpecWake == Init /\ [][NextWake]_vars

(***************************************************************************)
(* SpecData: a client that goes straight for a transaction and then sends  *)
(* message data of any content, cut into reads in any way; a handler that  *)
(* accepts or defers.                                                      *)
(***************************************************************************)
BodyOctets == {CR, LF, DOT, "QUIT"}

\* Every read that leaves the message data within MaxBody.
BodyChunks ==
    SeqsUpTo(BodyOctets, Max(0, Min(MaxRead, MaxBody - Len(dstream)))) \ {<<>>}

HappyLines == {Line("EHLO"), Line("MAIL"), Line("RCPT"), Line("DATA")}

DataChunks == IF state.k = "Data" THEN BodyChunks ELSE HappyLines

Willing == {"ok", "defer"}

NextData ==
    \/ ReadSome(DataChunks, Willing)
    \/ Writable(Willing)
    \/ Wakeup(Willing)

SpecData == Init /\ [][NextData]_vars

(***************************************************************************)
(* SpecReply: a handler, or the session, that writes one reply through a   *)
(* Reply (reply.rs): Reply::new on a send buffer that is empty or holds an *)
(* earlier reply, then any writes through the methods of Scribe.           *)
(***************************************************************************)
\* The most octets of one reply.
MaxReply == 8

ReplyCodes == {200, 599}

ReplyStatuses == {NoStatus, <<2, 1, 0>>}

\* The send buffer before the reply: empty, or with a reply in it.
Earlier == {SendBufNew, SendReply(SendBufNew, 250, <<2, 0, 0>>, <<"Ok", CR, LF>>)}

\* What is written: texts of up to two octets, the empty text among them.
ReplyOctets == {"a", CR, LF}

ReplyTexts == SeqsUpTo(ReplyOctets, 2)

ReplyNumbers == {0, 7, 10}

\* Reply::new has run.
InitReply ==
    \E code \in ReplyCodes, status \in ReplyStatuses, before \in Earlier :
        /\ Settled([Blank(<<>>) EXCEPT !.send = ReplyNew(before, code, status).buf])
        /\ reply = [r |-> ReplyNew(before, code, status),
                    start |-> Len(before.inner), w |-> "new"]
        /\ fifo = NoFifo
        /\ legacy = NoLegacy

\* The Reply is r after a write of kind w; the send buffer is its target.
Written(r, w) ==
    /\ Len(r.buf.inner) - reply.start <= MaxReply
    /\ reply' = [reply EXCEPT !.r = r, !.w = w]
    /\ send' = r.buf
    /\ UNCHANGED <<state, tls, plot, conn, recv, nrcpt, sink, dstream, log, fifo,
                   legacy>>

\* scribble_bytes
ScribbleBytes ==
    /\ reply.w # "none"
    /\ \E text \in ReplyTexts :
         Written(ReplyScribbleBytes(reply.r, text),
                 IF text = <<>> THEN "empty" ELSE "bytes")

\* scribble_octet
ScribbleOctet(octets) ==
    /\ reply.w # "none"
    /\ \E ch \in octets : Written(ReplyScribbleOctet(reply.r, ch), "octet")

\* scribble_u64 and the methods that come down to it
ScribbleNumber ==
    /\ reply.w # "none"
    /\ \E v \in ReplyNumbers : Written(ReplyScribbleU64(reply.r, v), "number")

NextReply ==
    \/ ScribbleBytes
    \/ ScribbleOctet(ReplyOctets)
    \/ ScribbleNumber

SpecReply == InitReply /\ [][NextReply]_vars

(***************************************************************************)
(* SpecSend: a SendBuf (buf.rs) on its own, under any interleaving of      *)
(* appends through Scribe and calls of try_write, the transport doing with *)
(* each call whatever TryWrite::try_write_buf allows: fail, block, or take *)
(* any number of the unwritten octets.                                     *)
(***************************************************************************)
\* The most octets appended to the buffer in all.
MaxAppend == 5

SendOctets == {"a", "b"}

SendTexts == SeqsUpTo(SendOctets, 2)

\* SendBuf::new has run.
InitSend ==
    /\ Settled(Blank(<<>>))
    /\ reply = NoReply
    /\ fifo = [NoFifo EXCEPT !.op = "new"]
    /\ legacy = NoLegacy

\* The buffer is s after the call op.
Sends(s, f) ==
    /\ send' = s
    /\ fifo' = f
    /\ UNCHANGED <<state, tls, plot, conn, recv, nrcpt, sink, dstream, log, reply,
                   legacy>>

\* impl Scribe for SendBuf: scribble_bytes
AppendBytes ==
    /\ fifo.op # "none"
    /\ \E buf \in SendTexts :
         /\ Len(fifo.appended) + Len(buf) <= MaxAppend
         /\ Sends(SendScribbleBytes(send, buf),
                  [fifo EXCEPT !.appended = @ \o buf, !.op = "append"])

\* impl Scribe for SendBuf: scribble_octet
AppendOctet ==
    /\ fifo.op # "none"
    /\ \E v \in SendOctets :
         /\ Len(fifo.appended) + 1 <= MaxAppend
         /\ Sends(SendScribbleOctet(send, v),
                  [fifo EXCEPT !.appended = Append(@, v), !.op = "append"])

\* What try_write_buf can do with the unwritten octets of s.
TryWrites(s) ==
    {[kind |-> "Err", n |-> 0], [kind |-> "None", n |-> 0]}
    \cup {[kind |-> "Some", n |-> n] : n \in 0..Len(SendSlice(s))}

\* SendBuf::try_write: the transport takes the first w.n unwritten octets.
TryWrite ==
    /\ fifo.op # "none"
    /\ \E w \in TryWrites(send) :
         Sends(SendTryWrite(send, w).buf,
               [fifo EXCEPT !.taken = @ \o SubSeq(SendSlice(send), 1, w.n),
                            !.op = "try_write",
                            !.res = SendTryWrite(send, w).res,
                            !.took = w.kind,
                            !.left = Len(SendSlice(send))])

NextSend ==
    \/ AppendBytes
    \/ AppendOctet
    \/ TryWrite

SpecSend == InitSend /\ [][NextSend]_vars

(***************************************************************************)
(* The smtp::daemon connection (daemon/connection.rs, daemon/session.rs):  *)
(* a Session behind a Connection that reads, replies and closes as its     *)
(* Direction says.  Its Reply writer is a copy of reply.rs's and writes    *)
(* the same octets for a code of three digits; its SendBuf is buf.rs's.    *)
(* recv is as_slice() of its RecvBuf, send its SendBuf.                    *)
(***************************************************************************)
\* Config::new: message_size_limit.
LegacySizeLimit == 10240000

\* The verbs Command::parse has an alternative for, BDAT left aside.
LegacyVerbs == {"EHLO", "HELO", "MAIL", "RCPT", "DATA", "VRFY", "EXPN", "HELP",
                "NOOP", "QUIT", "STARTTLS", "AUTH"}

\* The Command of a verb's alternative: QUIT's makes a Noop; the second
\* DATA alternative, which makes a Rset, is never reached.
LegacyCommand(verb) == IF verb = "QUIT" THEN "NOOP" ELSE verb

\* Command::parse.  kind is "Ok" for Done(rest, Ok(cmd)), "Err" for
\* Done(rest, Err(Parameters)), "Error" when no alternative matches, and
\* "Incomplete" when the line has not ended.
LegacyParse(slice) ==
    LET i == CrlfAt(slice)
        line == SubSeq(slice, 1, i - 1)
    IN  IF i = 0 THEN [kind |-> "Incomplete", cmd |-> "None", rest |-> slice]
        ELSE IF Len(line) = 1 /\ line[1] \in LegacyVerbs
        THEN [kind |-> "Ok", cmd |-> LegacyCommand(line[1]),
              rest |-> SubSeq(slice, i + 2, Len(slice))]
        ELSE IF line = <<BadParams>>
        THEN [kind |-> "Err", cmd |-> "None",
              rest |-> SubSeq(slice, i + 2, Len(slice))]
        ELSE [kind |-> "Error", cmd |-> "None", rest |-> slice]

\* daemon RecvBuf::find_data_end: the index (from 0) of the first DataEnd
\* among 0 .. len - 6, or -1; the subtraction len - 5 fails on a slice
\* shorter than DataEnd, which is -2 here.
LegacyFindDataEnd(slice) ==
    IF Len(slice) < DataEndLen THEN -2
    ELSE LET hits == {i \in 0..(Len(slice) - DataEndLen - 1) :
                          SubSeq(slice, i + 1, i + DataEndLen) = DataEnd}
         IN  IF hits = {} THEN -1
             ELSE CHOOSE i \in hits : \A j \in hits : i <= j

\* A session at work: its State, the two buffers and the Direction it
\* answers with.
LegacyAt(st, rcv, snd) ==
    [state |-> st, recv |-> rcv, send |-> snd, direction |-> "Reply"]

\* Session::start is not among the sources.  What its callers and the
\* test of the connection say of it: it writes the greeting, a reply 220
\* without a status, and gives the Direction to go on with.
LegacyStart(l) ==
    [l EXCEPT !.send = ReplyScribbleBytes(ReplyNew(@, 220, NoStatus),
                                          <<Hostname, CR, LF>>).buf,
              !.direction = "Reply"]

\* Session::hello
LegacyHello(l) ==
    LET r1 == ReplyScribbleBytes(ReplyNew(l.send, 205, NoStatus), <<Hostname>>)
        r2 == ReplyScribbleBytes(r1, <<CR, LF>>)
    IN  [l EXCEPT !.send = r2.buf, !.state = "Session"]

\* Session::ehello
LegacyEhello(l) ==
    LET r1 == ReplyScribbleBytes(ReplyNew(l.send, 205, NoStatus), <<Hostname>>)
        r2 == ReplyScribbleBytes(r1,
                  <<CR, LF, "EXPN", CR, LF, "HELP", CR, LF, "8BITMIME", CR, LF,
                    "SIZE ">>)
        r3 == ReplyScribbleU64(r2, LegacySizeLimit)
        r4 == ReplyScribbleBytes(r3,
                  <<CR, LF, "PIPELINING", CR, LF, "DSN", CR, LF, "ETRN", CR, LF,
                    "ENHANCEDSTATUSCODES", CR, LF, "STARTTLS", CR, LF,
                    "AUTH", CR, LF, "SMTPUTF8", CR, LF>>)
    IN  [l EXCEPT !.send = r4.buf, !.state = "Session"]

\* Session::mail.  h: the handler gives Some(mail), having replied as
\* NullSession does; otherwise None, having replied with its refusal.
LegacyMail(l, h) ==
    CASE l.state = "Session" ->
             IF h THEN [l EXCEPT !.send = SendReply(@, 205, <<2, 1, 0>>, <<"Ok", CR, LF>>),
                                 !.state = "MailRcpt"]
             ELSE [l EXCEPT !.send = HandlerReject(@, "mail")]
      [] l.state = "Early" ->
             [l EXCEPT !.send = SendReply(@, 503, <<5, 5, 1>>,
                                          <<"Please say 'Hello' first", CR, LF>>)]
      [] l.state = "Closing" ->
             [l EXCEPT !.send = SendReply(@, 503, <<5, 5, 1>>,
                                          <<"Please leave now", CR, LF>>)]
      [] OTHER ->
             [l EXCEPT !.send = SendReply(@, 503, <<5, 5, 1>>,
                                          <<"Nested MAIL command", CR, LF>>)]

\* Session::recipient.  h: MailTransaction::rcpt gives true, having replied
\* as NullTransaction does.
LegacyRecipient(l, h) ==
    CASE l.state = "MailRcpt" ->
             IF h THEN [l EXCEPT !.send = SendReply(@, 250, <<2, 1, 0>>, <<"Ok", CR, LF>>)]
             ELSE [l EXCEPT !.send = HandlerReject(@, "recipient"),
                            !.state = "Session"]
      [] l.state = "Closing" ->
             [l EXCEPT !.send = SendReply(@, 503, <<5, 5, 1>>,
                                          <<"Please leave now", CR, LF>>)]
      [] OTHER ->
             [l EXCEPT !.send = SendReply(@, 503, <<5, 5, 1>>,
                                          <<"Need MAIL first", CR, LF>>)]

\* Session::data.  h: MailTransaction::data gives Some(queue).
LegacyData(l, h) ==
    CASE l.state = "MailRcpt" ->
             IF h THEN [l EXCEPT !.send = ReplyScribbleBytes(
                                              ReplyNew(@, 354, NoStatus),
                                              <<"Go ahead.", CR, LF>>).buf,
                                 !.state = "MailData"]
             ELSE [l EXCEPT !.send = SendReply(@, 554, <<5, 5, 0>>,
                                               <<"Transaction failed", CR, LF>>),
                            !.state = "Session"]
      [] l.state = "Closing" ->
             [l EXCEPT !.send = SendReply(@, 503, <<5, 5, 1>>,
                                          <<"Please leave now", CR, LF>>)]
      [] OTHER ->
             [l EXCEPT !.send = SendReply(@, 503, <<5, 5, 1>>,
                                          <<"Need RCPT first", CR, LF>>)]

\* Session::verify, expand, help, with the replies of NullSession, and
\* Session::noop, starttls, auth.
LegacyOther(l, cmd) ==
    CASE cmd = "VRFY" ->
             [l EXCEPT !.send = SendReply(@, 252, <<2, 7, 0>>,
                                    <<"VRFY administratively disable", CR, LF>>)]
      [] cmd = "EXPN" ->
             [l EXCEPT !.send = SendReply(@, 252, <<2, 7, 0>>,
                                    <<"EPXN administratively disable", CR, LF>>)]
      [] cmd = "HELP" ->
             [l EXCEPT !.send = SendReply(@, 214, <<2, 0, 0>>,
                           <<"Some helpful text will appear here soon.", CR, LF>>)]
      [] cmd = "NOOP" ->
             [l EXCEPT !.send = SendReply(@, 250, <<2, 0, 0>>, <<"OK", CR, LF>>)]
      [] OTHER -> l

\* Session::command.  last is rest.len() == len.  Command::allow_pipeline
\* is not among the sources: pipeline is either answer.  No Command::Quit
\* and no Command::Rset comes out of Command::parse.
LegacySessionCommand(l, cmd, last, h, pipeline) ==
    LET done == CASE cmd = "EHLO" -> LegacyEhello(l)
                  [] cmd = "HELO" -> LegacyHello(l)
                  [] cmd = "MAIL" -> LegacyMail(l, h)
                  [] cmd = "RCPT" -> LegacyRecipient(l, h)
                  [] cmd = "DATA" -> LegacyData(l, h)
                  [] OTHER -> LegacyOther(l, cmd)
    IN  [done EXCEPT !.direction = IF last \/ ~pipeline THEN "Reply" ELSE "Receive"]

\* Reply::error for CommandError::Parameters.
LegacyReplyError(snd) ==
    SendReply(snd, 501, <<5, 0, 1>>, <<"Syntax error in parameters", CR, LF>>)

\* Session::process_command
LegacyProcessCommand(l, h, pipeline) ==
    LET p == LegacyParse(l.recv)
    IN  CASE p.kind = "Ok" ->
                 [LegacySessionCommand(l, p.cmd, Len(p.rest) = Len(l.recv), h, pipeline)
                     EXCEPT !.recv = p.rest]
          [] p.kind = "Err" ->
                 [l EXCEPT !.send = LegacyReplyError(@), !.recv = p.rest,
                           !.direction = "Reply"]
          [] p.kind = "Error" -> [l EXCEPT !.direction = "Closed"]
          [] OTHER -> [l EXCEPT !.direction = "Receive"]

\* Session::process_data.  The failed subtraction of find_data_end ends
\* the thread of the connection: Direction "Panic".
LegacyProcessData(l) ==
    LET idx == LegacyFindDataEnd(l.recv)
    IN  IF idx = -2 THEN [l EXCEPT !.direction = "Panic"]
        ELSE IF idx >= 0
        THEN LET rest == RecvAdvance(l.recv, idx + DataEndLen)
             IN  [l EXCEPT !.recv = rest,
                           !.send = SendReply(@, 250, <<2, 0, 0>>, <<"Ok", CR, LF>>),
                           !.state = "Session",
                           !.direction = IF rest = <<>> THEN "Reply" ELSE "Receive"]
        ELSE [l EXCEPT !.direction = "Receive"]

\* Session::process
LegacyProcess(l, h, pipeline) ==
    IF l.state = "MailData" THEN LegacyProcessData(l)
    ELSE LegacyProcessCommand(l, h, pipeline)

\* The command the session finds at the head of slice, for the observer.
LegacySeen(st, slice) ==
    IF st = "MailData" THEN "data"
    ELSE IF LegacyParse(slice).kind = "Ok" THEN LegacyParse(slice).cmd
    ELSE LegacyParse(slice).kind

\* The connection is at l after a step on cmd from its State pre.
LegacyCommit(l, cmd, pre) ==
    /\ legacy' = [state |-> l.state, direction |-> l.direction, cmd |-> cmd,
                  pre |-> pre,
                  out |-> SubSeq(l.send.inner, Len(send.inner) + 1, Len(l.send.inner))]
    /\ recv' = l.recv
    /\ send' = l.send
    /\ UNCHANGED <<state, tls, plot, conn, nrcpt, sink, dstream, log, reply, fifo>>

\* Connection::create: Connection::new, then Session::start.
InitLegacy ==
    LET l == LegacyStart(LegacyAt("Early", <<>>, SendBufNew))
    IN  /\ Settled([Blank(<<>>) EXCEPT !.send = l.send])
        /\ reply = NoReply
        /\ fifo = NoFifo
        /\ legacy = [state |-> l.state, direction |-> l.direction,
                     cmd |-> "start", pre |-> "Early", out |-> l.send.inner]

\* What the client sends.
LegacyChunks ==
    IF legacy.state = "MailData"
    THEN {DataEnd, DataEnd \o <<"x">>, <<"x", CR, LF>>, Line("NOOP") \o Line("NOOP")}
    ELSE {Line(v) : v \in LegacyVerbs \cup {"RSET", BadParams}}
         \cup {Line("MAIL") \o Line("RCPT"), <<"NOOP">>, <<CR, LF>>}

\* on_readable, try_read gave Ok(Some(n)), n > 0: process_read.
LegacyReadSome ==
    /\ legacy.direction = "Receive"
    /\ Len(send.inner) <= MaxSend
    /\ \E chunk \in LegacyChunks, h \in BOOLEAN, pipeline \in BOOLEAN :
         /\ Len(recv) + Len(chunk) <= MaxRecv
         /\ LegacyCommit(LegacyProcess(LegacyAt(legacy.state, recv \o chunk, send),
                                       h, pipeline),
                         LegacySeen(legacy.state, recv \o chunk), legacy.state)

\* on_readable, try_read gave Ok(None).
LegacyReadNone ==
    /\ legacy.direction = "Receive"
    /\ LegacyCommit([LegacyAt(legacy.state, recv, send)
                        EXCEPT !.direction = legacy.direction],
                    "none", legacy.state)

\* on_readable, try_read gave Ok(Some(0)) or Err.
LegacyReadEnd ==
    /\ legacy.direction = "Receive"
    /\ LegacyCommit([LegacyAt(legacy.state, recv, send)
                        EXCEPT !.direction = "Closed"],
                    "end", legacy.state)

\* on_writable
LegacyWritable ==
    /\ legacy.direction \in {"Reply", "Closing"}
    /\ \E w \in WriteOutcomes :
         LET tried == SendTryWrite(send, w)
         IN  LegacyCommit(
                 [LegacyAt(legacy.state, recv, tried.buf) EXCEPT !.direction =
                      CASE tried.res = "Err" -> "Closed"
                        [] tried.res = "False" -> legacy.direction
                        [] legacy.direction = "Closing" -> "Closed"
                        [] OTHER -> "Receive"],
                 "write", legacy.state)

NextLegacy ==
    \/ LegacyReadSome
    \/ LegacyReadNone
    \/ LegacyReadEnd
    \/ LegacyWritable

SpecLegacy == InitLegacy /\ [][NextLegacy]_vars


(***************************************************************************)
(* Properties.  They read the log of the last event: one record for each   *)
(* command, body read, wakeup or TLS confirmation the session worked on.   *)
(***************************************************************************)
Steps == {log[i] : i \in 1..Len(log)}

Called(e, name) == \E i \in 1..Len(e.calls) : e.calls[i] = name

\* The lines of out: its pieces between the CRLFs.
RECURSIVE ReplyLines(_)
ReplyLines(out) ==
    IF CrlfAt(out) = 0 THEN IF out = <<>> THEN <<>> ELSE <<out>>
    ELSE <<SubSeq(out, 1, CrlfAt(out) - 1)>>
         \o ReplyLines(SubSeq(out, CrlfAt(out) + 2, Len(out)))

\* The number of replies in out: a reply ends with a line that has a space
\* after the three digits of the code.
ReplyCount(out) ==
    Cardinality({i \in 1..Len(ReplyLines(out)) :
                    Len(ReplyLines(out)[i]) >= 4 /\ ReplyLines(out)[i][4] = SP})

\* out begins with a one-line reply 503 5.5.1.
Starts503(out) ==
    /\ Len(out) > 10
    /\ SubSeq(out, 1, 10) = <<"5", "0", "3", SP, "5", DOT, "5", DOT, "1", SP>>

IllegalAtLevel(e) ==
    /\ e.cmd \in {"MAIL", "RCPT", "DATA"}
    /\ \/ e.pre = IdleAt("Early")
       \/ e.cmd \in {"RCPT", "DATA"} /\ e.pre = IdleAt("Greeted")

\* C1: the handler's mail callback is called only for a MAIL command at
\* level Greeted; a MAIL command at level Early or Mail makes no handler
\* call, is answered 503 5.5.1 and leaves the state (the level) and the
\* recipients of an open transaction as they were.
C1_MailOnlyAtGreeted ==
    \A e \in Steps :
        /\ Called(e, "mail") => (e.cmd = "MAIL" /\ e.pre = IdleAt("Greeted"))
        /\ (e.cmd = "MAIL" /\ e.pre \in {IdleAt("Early"), IdleAt("Mail")}) =>
               /\ e.calls = <<>>
               /\ Starts503(e.out) /\ ReplyCount(e.out) = 1
               /\ e.post = e.pre
               /\ e.nrcpt2 = e.nrcpt

\* A nested MAIL in a transaction that has a recipient, and one at Early.
C1_Witness ==
    /\ \E e \in Steps : e.cmd = "MAIL" /\ e.pre = IdleAt("Mail") /\ e.nrcpt >= 1
                        /\ Starts503(e.out) /\ state = IdleAt("Mail") /\ nrcpt >= 1

\* C2: a MAIL the handler accepts, at once or on the wakeup of its Defer,
\* leaves the session at level Mail; an RCPT or DATA command at level
\* Greeted makes no handler call, is answered 503 5.5.1 and leaves the
\* session at level Greeted.
C2_MailThenInMail ==
    \A e \in Steps :
        /\ (e.cmd = "MAIL" /\ Called(e, "mail") /\ Accepts(e.d)) => e.post = IdleAt("Mail")
        /\ (e.cmd = "wakeup" /\ e.pre = WaitFor("Mail", "None") /\ Accepts(e.d)) =>
               e.post = IdleAt("Mail")
        /\ (e.cmd \in {"RCPT", "DATA"} /\ e.pre = IdleAt("Greeted")) =>
               /\ e.calls = <<>>
               /\ Starts503(e.out)
               /\ e.post = IdleAt("Greeted")

\* A MAIL the handler rejected and the RCPT after it in one read, and DATA
\* at Greeted.
C2_Witness ==
    /\ Len(log) = 2
    /\ log[1].cmd = "MAIL" /\ Called(log[1], "mail") /\ ~Accepts(log[1].d)
    /\ log[2].cmd = "RCPT" /\ log[2].pre = IdleAt("Greeted") /\ Starts503(log[2].out)

\* C3: the session enters the data phase only with at least one accepted
\* recipient in the transaction.
C3_DataNeedsRecipient ==
    \A e \in Steps : (e.post = InData /\ e.pre # InData) => e.nrcpt >= 1

\* C4: a MAIL, RCPT or DATA command that is illegal at the level appends
\* exactly one reply, a 503 5.5.1, and leaves the state as it was.
C4_IllegalOneReply503 ==
    \A e \in Steps :
        IllegalAtLevel(e) =>
            /\ ReplyCount(e.out) = 1
            /\ Starts503(e.out)
            /\ e.post = e.pre


(***************************************************************************)
(* The data phase.  sent is what the client sent before the first end of   *)
(* data, once all of that has arrived.                                     *)
(***************************************************************************)
Sent == SubSeq(dstream, 1, FindDataEnd(dstream))

IsPrefix(a, b) == Len(a) <= Len(b) /\ SubSeq(b, 1, Len(a)) = a

\* A session in state Data that gets the whole of stream in one read.
OneRead(stream) ==
    ReadDataRecv([Blank(<<"ok">>) EXCEPT !.state = InData, !.recv = stream,
                                         !.dstream = stream,
                                         !.sink = [NoSink EXCEPT !.open = TRUE]])

\* C5: in state Data the session parses no command: a step that starts in
\* Data is a body step, never leads to Dead or a close, and, while the data
\* goes on, appends no reply and calls no handler; every octet received is
\* in the sink or still in the receive buffer, in order.
C5_DataIsNotParsed ==
    /\ \A e \in Steps :
           e.pre = InData =>
               /\ e.cmd = "body"
               /\ e.post # Dead
               /\ e.act \notin {"Close", "StartTls"}
               /\ e.post = InData => (e.out = <<>> /\ e.calls = <<>> /\ e.act = "Read")
    /\ (sink.open /\ sink.completes = 0) => sink.bytes \o recv = dstream

\* The line QUIT CRLF has gone to the sink, the session reads on.
C5_Witness ==
    /\ state = InData /\ conn = "open" /\ plot = PlotRead /\ send = SendBufNew
    /\ sink.bytes = Line("QUIT")
    /\ \E e \in Steps : e.cmd = "body" /\ e.fed = Line("QUIT")

\* C6: the sink gets what the client sent before the first end of data and
\* nothing else: its octets are always a prefix of the client's that stops
\* short of an end of data; complete is called at most once, with exactly
\* the octets before the first end of data in the sink, the end of data
\* consumed and what follows left in the receive buffer; no chunk comes
\* after complete.
C6_SinkGetsTheBody ==
    /\ sink.completes <= 1
    /\ ~sink.late
    /\ IsPrefix(sink.bytes, dstream)
    /\ FindDataEnd(dstream) >= 0 => Len(sink.bytes) <= FindDataEnd(dstream)
    /\ sink.completes = 1 =>
           /\ FindDataEnd(dstream) = Len(sink.bytes)
           /\ dstream = sink.bytes \o DataEnd \o sink.left

\* Data that went to the sink in two chunks of two reads, then complete.
C6_Witness ==
    /\ sink.completes = 1
    /\ Len(log) = 1 /\ log[1].cmd = "body"
    /\ log[1].fed # <<>> /\ Len(log[1].fed) < Len(sink.bytes)

\* C7: however the client's octets are cut into reads, the data phase is
\* over as soon as the first end of data has arrived, and the sink and the
\* receive buffer are then as after a single read of all of it.
C7_CutsDoNotMatter ==
    /\ (state = InData /\ plot = PlotRead) => FindDataEnd(dstream) = -1
    /\ sink.completes = 1 =>
           /\ OneRead(dstream).sink.completes = 1
           /\ sink.bytes = OneRead(dstream).sink.bytes
           /\ sink.left = OneRead(dstream).recv

\* The read that completed the data began inside the end of data.
C7_Witness ==
    /\ sink.completes = 1
    /\ \E e \in Steps : /\ e.cmd = "body" /\ e.post # InData
                        /\ Len(e.fed) < e.had
                        /\ e.had < Len(e.fed) + DataEndLen
                        /\ sink.bytes # <<>>

\* Transparency (RFC 5321, 4.5.2): the client puts a dot before every line
\* that begins with a dot; the server takes the first dot off every line
\* that begins with one.
LineStart(s, i) == i = 1 \/ (i >= 3 /\ s[i - 2] = CR /\ s[i - 1] = LF)

RECURSIVE DotStuffFrom(_, _)
DotStuffFrom(b, i) ==
    IF i > Len(b) THEN <<>>
    ELSE (IF LineStart(b, i) /\ b[i] = DOT THEN <<DOT, DOT>> ELSE <<b[i]>>)
         \o DotStuffFrom(b, i + 1)

DotStuff(b) == DotStuffFrom(b, 1)

RECURSIVE DotUnstuffFrom(_, _)
DotUnstuffFrom(s, i) ==
    IF i > Len(s) THEN <<>>
    ELSE (IF LineStart(s, i) /\ s[i] = DOT THEN <<>> ELSE <<s[i]>>)
         \o DotUnstuffFrom(s, i + 1)

DotUnstuff(s) == DotUnstuffFrom(s, 1)

\* C8: when the client has sent the dot-stuffed form of a body that holds
\* no end of data, the sink has the body without the stuffing once the data
\* is complete.
C8_SinkGetsUnstuffed ==
    (/\ sink.completes = 1
     /\ DotStuff(DotUnstuff(Sent)) = Sent
     /\ FindDataEnd(DotUnstuff(Sent)) = -1) =>
        sink.bytes = DotUnstuff(Sent)

(***************************************************************************)
(* Deferred decisions.                                                     *)
(***************************************************************************)
WokeUp(l) == l # <<>> /\ l[1].cmd = "wakeup"

\* The commands the parser takes out of buf, in order.
RECURSIVE Commands(_)
Commands(buf) ==
    CASE ParseCommand(buf).kind = "None" -> <<>>
      [] ParseCommand(buf).kind = "Err" -> <<"Err">>
      [] OTHER -> <<ParseCommand(buf).cmd>> \o Commands(ParseCommand(buf).rest)

LogCmds(l) == [i \in 1..Len(l) |-> l[i].cmd]

\* C9: an event other than the wakeup leaves a waiting session as it is:
\* the state stays the same Wait, the session does no work (no command
\* parsed, no handler called), the send buffer and the recipients are
\* untouched, and the receive buffer keeps what it held, new octets after.
C9_WaitHoldsStill ==
    [][(state.k = "Wait" /\ ~WokeUp(log')) =>
           /\ state' = state
           /\ log' = <<>>
           /\ send' = send
           /\ nrcpt' = nrcpt
           /\ IsPrefix(recv, recv')]_vars

\* A waiting session that has taken in a whole command and not touched it.
C9_Witness ==
    /\ state.k = "Wait" /\ conn = "open" /\ plot = PlotWait
    /\ log = <<>>
    /\ CrlfAt(recv) > 0

\* C10: the wakeup that accepts a deferred MAIL takes the session to level
\* Mail with the handler's reply appended; what the session works on next
\* are the commands already in the receive buffer, in their order, and the
\* receive buffer keeps the rest; once the reply is written out the session
\* works on the commands in the receive buffer, in their order; and the
\* transport never waits for the client while an idle session has a whole
\* command in the receive buffer.
C10_WakeupResumes ==
    [][/\ (state = WaitFor("Mail", "None") /\ WokeUp(log') /\ Accepts(log'[1].d)) =>
              /\ log'[1].post = IdleAt("Mail")
              /\ log'[1].d = "ok" => log'[1].out = HandlerAccept(SendBufNew, "wakeup").inner
              /\ IsPrefix(Tail(LogCmds(log')), Commands(recv))
              /\ \E n \in 0..Len(recv) : recv' = SubSeq(recv, n + 1, Len(recv))
       /\ (state.k = "Idle" /\ plot = PlotWrite("Read") /\ log' # <<>>) =>
              IsPrefix(LogCmds(log'), Commands(recv))
       /\ (conn' = "open" /\ plot' = PlotRead /\ state'.k = "Idle") => CrlfAt(recv') = 0
      ]_vars

\* The deferred MAIL has been accepted with its reply, commands are in the
\* receive buffer, and the transport is about to write and then go on.
C10_Witness ==
    /\ WokeUp(log) /\ log[1].pre = WaitFor("Mail", "None") /\ log[1].d = "ok"
    /\ state = IdleAt("Mail") /\ plot = PlotWrite("Read") /\ conn = "open"
    /\ Len(Commands(recv)) >= 2

(***************************************************************************)
(* A deferred decision against an immediate one.                           *)
(***************************************************************************)
\* A session in state st about to make one handler call decided d.
Before(st, d) == [Blank(<<d>>) EXCEPT !.state = st]

\* What the session does when the handler call behind Wait(kind) returns
\* Final at once, decided d, the session having been at level from.
Immediate(kind, level, from, d, is_secure) ==
    CASE kind = "Start" -> StartProcess(StartRecv(Blank(<<d>>)))
      [] kind = "Helo" -> HeloProcess(HelloRecv(Before(IdleAt(from), d)))
      [] kind = "Ehlo" -> EhloProcess(HelloRecv(Before(IdleAt(from), d)), is_secure)
      [] kind = "Mail" -> MailProcess(MailRecv(Before(IdleAt("Greeted"), d)))
      [] kind = "Rcpt" -> RcptProcess(RcptRecv(Before(IdleAt("Mail"), d)))
      [] kind = "Data" -> DataProcess(DataRecv(Before(IdleAt("Mail"), d)))
      [] kind \in {"Vrfy", "Expn", "Help"} ->
            AncillaryProcess(AncillaryRecv(Before(IdleAt(level), d), kind, level),
                             kind, level)
      [] kind = "CheckTls" -> CheckTlsProcess(CheckTlsRecv(Before(IdleAt(from), d)))
      [] kind = "DataComplete" -> DataCompleteProcess(DataCompleteRecv(Before(InData, d)))

SameOutcome(e, t) ==
    /\ e.post = t.state
    /\ e.out = t.send.inner
    /\ e.act = t.act

\* C11: a wakeup that brings a Final leaves the session in the state, with
\* the octets appended to the send buffer and with the Action that the
\* same decision would have given had the handler returned it at once.
C11_WakeupAsImmediate ==
    \A e \in Steps :
        (e.cmd = "wakeup" /\ e.d # "defer") =>
            \A from \in Levels :
                SameOutcome(e, Immediate(e.pre.wait, e.pre.level, from, e.d, e.secure))

\* A deferred VRFY inside a transaction has been answered on the wakeup.
C11_Witness ==
    /\ WokeUp(log) /\ log[1].pre = WaitFor("Vrfy", "Mail") /\ log[1].d = "ok"
    /\ log[1].out # <<>> /\ log[1].post = IdleAt("Mail")

(***************************************************************************)
(* Pipelining.                                                             *)
(***************************************************************************)
\* The step queued the reply to a MAIL, RCPT or RSET of an idle session:
\* the command itself or the wakeup of its deferred decision.
Collects(e) ==
    /\ e.out # <<>>
    /\ \/ e.cmd \in {"MAIL", "RCPT", "RSET"} /\ e.pre.k = "Idle"
       \/ e.cmd = "wakeup" /\ e.pre.wait \in {"Mail", "Rcpt"}

\* The step queued the reply to another command.
Flushes(e) ==
    /\ e.out # <<>>
    /\ e.cmd \in (Verbs \cup {"Unrecognized", "ParameterError"}) \ {"MAIL", "RCPT", "RSET"}

\* C12: after the reply to MAIL, RCPT or RSET the transport goes on to the
\* next command without writing while the receive buffer holds octets, and
\* writes when it is empty; after the reply to another command it writes at
\* once.
C12_CollectThenWrite ==
    \A i \in 1..Len(log) :
        /\ (Collects(log[i]) /\ log[i].rest > 0) =>
               \/ i < Len(log)
               \/ conn = "open" /\ plot = PlotRead /\ CrlfAt(recv) = 0
        /\ (Collects(log[i]) /\ log[i].rest = 0) =>
               (i = Len(log) /\ conn = "open" /\ plot = PlotWrite("Read"))
        /\ Flushes(log[i]) => (i = Len(log) /\ conn = "open" /\ plot.p = "Write")

\* The octets the steps of an event appended, one after the other.
RECURSIVE Outs(_)
Outs(l) == IF l = <<>> THEN <<>> ELSE Head(l).out \o Outs(Tail(l))

\* C13: the send buffer of an event is what it held (or nothing, once all
\* of it is written out) followed by the replies of the event's steps in
\* their order; an idle session's steps are the commands of the receive
\* buffer in their order; and a write is plotted after the reply to a MAIL,
\* RCPT or RSET only when no octet of the read is left in the receive
\* buffer, so that the replies of a pipelined group leave together.
C13_RepliesInOrder ==
    [][/\ send'.inner \in {send.inner \o Outs(log'), Outs(log')}
       /\ (state.k = "Idle" /\ plot = PlotRead /\ tls # "Handshake" /\ log' # <<>>) =>
              \E chunk \in CmdChunks :
                  /\ IsPrefix(LogCmds(log'), Commands(recv \o chunk))
                  /\ \E n \in 0..Len(recv \o chunk) :
                         recv' = SubSeq(recv \o chunk, n + 1, Len(recv \o chunk))
       /\ (conn' = "open" /\ plot'.p = "Write" /\ log' # <<>> /\ Collects(Last(log'))) =>
              recv' = <<>>
      ]_vars

(***************************************************************************)
(* STARTTLS.                                                               *)
(***************************************************************************)
\* try_write_buf took all that was left of the send buffer.
TookAll(w) == w.kind = "Some" /\ w.n = Len(send.inner) - send.pos

\* What writable makes of the connection when the plot is Write(StartTls).
AfterWrite(w, hsok) == Run(WriteEvent(w, hsok), <<>>)

\* The handshake has begun over empty buffers, or the accept failed.
HandshakeBegun(t, hsok) ==
    /\ t.recv = <<>> /\ t.send = SendBufNew
    /\ IF hsok THEN t.conn = "open" /\ t.tls = "Handshake" /\ t.plot = PlotRead
       ELSE t.conn = "removed"

\* The write goes on (or failed): the buffers and the security are as before.
StillWriting(t) ==
    /\ t.tls = tls /\ t.recv = recv /\ t.send.inner = send.inner
    /\ t.conn = "removed" \/ t.plot = plot

\* C14: an accepted STARTTLS plots Write(StartTls) with the 220 queued and
\* the security as it was; under that plot nothing is parsed, a write that
\* leaves octets unsent changes neither buffers nor security, and the write
\* that takes the last octet empties both buffers and starts the handshake;
\* the handshake starts in no other way.
C14_StartTlsDrainsThenClears ==
    [][/\ \A i \in 1..Len(log') :
              (log'[i].cmd = "STARTTLS" /\ log'[i].pre.k = "Idle" /\ ~log'[i].secure) =>
                  /\ log'[i].act = "StartTls" /\ i = Len(log')
                  /\ log'[i].out = SendReply(SendBufNew, 220, <<2, 7, 0>>,
                                             <<"Ready to start TLS", CR, LF>>).inner
                  /\ conn' = "open" /\ plot' = PlotWrite("StartTls") /\ tls' = tls
       /\ plot = PlotWrite("StartTls") =>
              /\ log' = <<>>
              /\ \A w \in WriteOutcomes, hsok \in BOOLEAN :
                     IF TookAll(w) THEN HandshakeBegun(AfterWrite(w, hsok), hsok)
                     ELSE StillWriting(AfterWrite(w, hsok))
       /\ (tls' = "Handshake" /\ tls # "Handshake") =>
              /\ plot = PlotWrite("StartTls")
              /\ recv' = <<>> /\ send' = SendBufNew /\ log' = <<>>
      ]_vars

\* The handshake is pending over empty buffers.
C14_Witness ==
    /\ tls = "Handshake" /\ conn = "open" /\ plot = PlotRead
    /\ recv = <<>> /\ send = SendBufNew /\ state.k = "Idle"

\* out is one reply with the code 500.
Is500(out) ==
    /\ Len(out) > 4 /\ SubSeq(out, 1, 4) = <<"5", "0", "0", SP>>
    /\ ReplyCount(out) = 1

\* C15, as stated: on a secure connection every STARTTLS command is
\* answered with one reply 500 and leaves the state as it was, and the
\* connection stays secure: no other handshake begins.
C15_SecureRefusesStartTls ==
    [][/\ \A i \in 1..Len(log') :
              (log'[i].cmd = "STARTTLS" /\ log'[i].secure) =>
                  /\ Is500(log'[i].out)
                  /\ log'[i].post = log'[i].pre
                  /\ log'[i].act = "Write"
       /\ tls = "Secure" => tls' = "Secure"
      ]_vars

\* C15, amended: on a secure connection every STARTTLS command that a
\* session which is not Dead parses is answered with one reply 500 and
\* leaves the state as it was; a Dead session answers it 503 and stays
\* Dead; in both cases the connection stays secure: no other handshake
\* begins.
C15_SecureIdleRefusesStartTls ==
    [][/\ \A i \in 1..Len(log') :
              (log'[i].cmd = "STARTTLS" /\ log'[i].secure) =>
                  /\ log'[i].post = log'[i].pre
                  /\ log'[i].act = "Write"
                  /\ ReplyCount(log'[i].out) = 1
                  /\ IF log'[i].pre = Dead THEN Starts503(log'[i].out)
                     ELSE Is500(log'[i].out)
       /\ tls = "Secure" => tls' = "Secure"
      ]_vars

\* STARTTLS inside a transaction on a secure connection has been refused.
C15_Witness ==
    /\ tls = "Secure" /\ state = IdleAt("Mail") /\ conn = "open"
    /\ \E e \in Steps : e.cmd = "STARTTLS" /\ e.secure /\ Is500(e.out)

\* out is one one-line reply with the code of the three digits.
OneReply(out, digits) ==
    /\ Len(out) > 4 /\ SubSeq(out, 1, 4) = digits \o <<SP>>
    /\ ReplyCount(out) = 1 /\ Len(ReplyLines(out)) = 1

\* C16, as stated: STARTTLS on a connection that is not secure, at any
\* level, is answered with one reply 220 and leaves the session at level
\* Greeted while the handshake is pending.
C16_StartTlsLeavesGreeted ==
    /\ \A e \in Steps :
          (e.cmd = "STARTTLS" /\ ~e.secure /\ e.pre.k = "Idle") =>
              /\ OneReply(e.out, <<"2", "2", "0">>)
              /\ e.post = IdleAt("Greeted")
    /\ (tls = "Handshake" /\ conn = "open") => state = IdleAt("Greeted")

\* C16, amended: STARTTLS on a connection that is not secure, at any
\* level, is answered with one reply 220 and the action StartTls and
\* leaves the session at the level it had, which it keeps while the
\* handshake is pending; a handshake that the handler's check_tls accepts
\* at once puts the session at level Early.
C16_StartTlsKeepsLevel ==
    [][/\ \A i \in 1..Len(log') :
              /\ (log'[i].cmd = "STARTTLS" /\ ~log'[i].secure
                      /\ log'[i].pre.k = "Idle") =>
                      /\ OneReply(log'[i].out, <<"2", "2", "0">>)
                      /\ log'[i].post = log'[i].pre
                      /\ log'[i].act = "StartTls"
              /\ (log'[i].cmd = "confirm_tls" /\ log'[i].d \in {"ok", "okq"}) =>
                      /\ log'[i].pre.k = "Idle"
                      /\ log'[i].post = IdleAt("Early")
       /\ (tls = "Handshake" /\ tls' = "Handshake") => state' = state
       /\ (plot = PlotWrite("StartTls") /\ conn' = "open") =>
              state' = state /\ state.k = "Idle"
       /\ (tls # "Handshake" /\ tls' = "Handshake") => plot = PlotWrite("StartTls")
      ]_vars

\* The handshake is pending after a STARTTLS inside a transaction.
C16_Witness ==
    tls = "Handshake" /\ conn = "open" /\ state = IdleAt("Mail")

(***************************************************************************)
(* EHLO.                                                                   *)
(***************************************************************************)
\* The texts of the lines of the reply to EHLO that the specification
\* lists, in its order.
EhloKeywords(is_secure) ==
    << <<"localhost.local">>, <<"EXPN">>, <<"HELP">>, <<"8BITMIME">>,
       <<"SIZE ", "1", "0", "4", "8", "5", "7", "6", "0">>,
       <<"PIPELINING">>, <<"DSN">>, <<"ETRN">>, <<"ENHANCEDSTATUSCODES">>,
       <<"SMTPUTF8">> >>
    \o IF is_secure THEN <<>> ELSE << <<"STARTTLS">> >>

\* The octets of a multi-line reply 250 with these texts: a dash after the
\* code on every line but the last, a space on the last.
RECURSIVE MultiLine250(_)
MultiLine250(texts) ==
    IF texts = <<>> THEN <<>>
    ELSE <<"2", "5", "0", IF Len(texts) = 1 THEN SP ELSE DASH>>
         \o Head(texts) \o <<CR, LF>> \o MultiLine250(Tail(texts))

\* e is an EHLO that the handler accepted, at once or on a wakeup.
EhloAccepted(e) ==
    /\ e.d \in {"ok", "okq"}
    /\ \/ e.cmd = "EHLO" /\ e.pre.k = "Idle"
       \/ e.cmd = "wakeup" /\ e.pre = WaitFor("Ehlo", "None")

\* C17: an accepted EHLO appends one multi-line reply 250 with the lines
\* hostname, EXPN, HELP, 8BITMIME, SIZE and the limit, PIPELINING, DSN, ETRN,
\* ENHANCEDSTATUSCODES, SMTPUTF8 and, if and only if the connection is not
\* secure, STARTTLS, every line but the last with a dash and the last with
\* a space, and the session moves to Greeted.
C17_EhloReply ==
    \A e \in Steps :
        EhloAccepted(e) =>
            /\ e.out = MultiLine250(EhloKeywords(e.secure))
            /\ ReplyCount(e.out) = 1
            /\ e.post = IdleAt("Greeted")
            /\ e.act = "Write"

\* An EHLO has been accepted on a secure connection.
C17_Witness ==
    \E e \in Steps : EhloAccepted(e) /\ e.secure /\ e.cmd = "EHLO"
                        /\ Len(ReplyLines(e.out)) = 10

(***************************************************************************)
(* The start of a session.                                                 *)
(***************************************************************************)
\* The start hook of the handler has answered, at construction.
Started(e) == e.cmd = "start" /\ Called(e, "start")

\* C18: when the start hook returns Final(Some(session)), exactly the
\* greeting 220, hostname, ESMTP, systemname and CRLF is appended to the
\* send buffer, the session is at level Early and the action is Write; when
\* it returns Final(None), 554 5.5.0 Connection refused. and CRLF is
\* appended, the session is Dead and the action is Close; when it returns
\* Defer, nothing is appended and the action is Wait.
C18_SessionStart ==
    \A e \in Steps :
        Started(e) =>
            /\ send = [inner |-> e.out, pos |-> 0]
            /\ state = e.post
            /\ e.d \in {"ok", "okq"} =>
                   /\ e.out = <<"2", "2", "0", SP, "localhost.local", SP, "ESMTP",
                                SP, "Cloudship", CR, LF>>
                   /\ e.post = IdleAt("Early")
                   /\ e.act = "Write"
            /\ e.d \in {"rej", "rejq"} =>
                   /\ e.out = <<"5", "5", "4", SP, "5", DOT, "5", DOT, "0", SP,
                                "Connection refused.", CR, LF>>
                   /\ e.post = Dead
                   /\ e.act = "Close"
            /\ e.d = "defer" =>
                   /\ e.out = <<>>
                   /\ e.post.k = "Wait"
                   /\ e.act = "Wait"

\* A session whose start hook refused the connection.
C18_Witness ==
    /\ \E e \in Steps : Started(e) /\ e.d = "rej" /\ e.out # <<>>
    /\ state = Dead /\ plot = PlotWrite("Close") /\ conn = "open"

(***************************************************************************)
(* RSET.                                                                   *)
(***************************************************************************)
\* C19, as stated: whenever RSET is parsed, whatever the state of the
\* session, the reply is 250 and the session is afterwards at Greeted, or
\* at Early if there has been no hello.
C19_RsetAlways250 ==
    \A e \in Steps :
        e.cmd = "RSET" =>
            /\ OneReply(e.out, <<"2", "5", "0">>)
            /\ e.post \in {IdleAt("Greeted"), IdleAt("Early")}

\* C19, amended: a RSET that a session which is not Dead parses is answered
\* with the one reply 250 2.0.0 Ok, resets an open transaction, and leaves
\* the session at Early if it was there and at Greeted otherwise; a Dead
\* session answers it 503 and stays Dead.
C19_RsetWhenIdle ==
    \A e \in Steps :
        e.cmd = "RSET" =>
            IF e.pre = Dead
            THEN Starts503(e.out) /\ ReplyCount(e.out) = 1 /\ e.post = Dead
            ELSE /\ e.pre.k = "Idle"
                 /\ e.out = <<"2", "5", "0", SP, "2", DOT, "0", DOT, "0", SP,
                              "Ok", CR, LF>>
                 /\ e.post = IdleAt(IF e.pre.level = "Early" THEN "Early"
                                    ELSE "Greeted")
                 /\ Called(e, "reset") <=> e.pre.level = "Mail"
                 /\ e.nrcpt2 = 0

\* A RSET has ended a transaction with recipients.
C19_Witness ==
    \E e \in Steps :
        /\ e.cmd = "RSET" /\ e.pre = IdleAt("Mail") /\ e.nrcpt > 0
        /\ e.post = IdleAt("Greeted") /\ OneReply(e.out, <<"2", "5", "0">>)

(***************************************************************************)
(* QUIT.                                                                   *)
(***************************************************************************)
QuitReply == <<"2", "2", "1", SP, "2", DOT, "0", DOT, "0", SP, "Bye", CR, LF>>

\* The send buffer ends with the reply to QUIT.
EndsWithBye(s) ==
    /\ Len(s.inner) >= Len(QuitReply)
    /\ SubSeq(s.inner, Len(s.inner) - Len(QuitReply) + 1, Len(s.inner)) = QuitReply

\* C20: a QUIT parsed in any state that reads commands is answered 221 and
\* puts the session in Dead; it is the last command of its read to be
\* processed, and no command is processed after it; the driver keeps the
\* connection until a write has left the send buffer, the 221 and all
\* that was queued before it, empty, and removes it then (or when a write
\* fails).
C20_QuitDrainsThenCloses ==
    [][/\ \A i \in 1..Len(log') :
              log'[i].cmd = "QUIT" =>
                  /\ log'[i].pre.k \in {"Idle", "Dead"}
                  /\ log'[i].out = QuitReply
                  /\ log'[i].post = Dead
                  /\ log'[i].act = "Close"
                  /\ i = Len(log')
                  /\ conn' = "open" /\ plot' = PlotWrite("Close")
                  /\ state' = Dead
                  /\ EndsWithBye(send')
                  /\ send'.pos <= Len(send'.inner) - Len(QuitReply)
                  /\ send'.inner \in {send.inner \o Outs(log'), Outs(log')}
       /\ (plot = PlotWrite("Close") /\ conn = "open") =>
              /\ log' = <<>> /\ recv' = recv /\ state' = state
              /\ send'.inner = send.inner \/ send' = SendBufNew
              /\ send'.pos >= send.pos \/ send' = SendBufNew
              /\ conn' = "removed" => (SendIsEmpty(send') \/ send' = send)
              /\ SendIsEmpty(send') => conn' = "removed"
              /\ conn' = "open" => plot' = plot
      ]_vars

\* RSET and QUIT came in one read: the 221 is queued behind the 250, a
\* write has taken a part of them, and the connection is still there.
C20_Witness ==
    /\ conn = "open" /\ state = Dead /\ plot = PlotWrite("Close")
    /\ EndsWithBye(send) /\ ReplyCount(send.inner) = 2
    /\ send.pos > 0 /\ ~SendIsEmpty(send)

(***************************************************************************)
(* The end of a mail transaction.                                          *)
(***************************************************************************)
\* The number of calls of name among calls.
Count(calls, name) == Cardinality({i \in 1..Len(calls) : calls[i] = name})

\* C21: RSET, HELO or EHLO processed while a mail transaction is open calls
\* the transaction's reset exactly once, for HELO and EHLO before hello,
\* and no transaction exists afterwards, nor after the wakeup of a deferred
\* hello; the next command is processed in the state so left, and a RCPT
\* or DATA processed without a transaction gets an answer that begins with
\* a reply 503 and reaches no handler.
C21_ResetEndsTransaction ==
    [][\A i \in 1..Len(log') :
          LET e == log'[i]
          IN  /\ e.pre = (IF i = 1 THEN state ELSE log'[i - 1].post)
              /\ (e.cmd \in {"RSET", "HELO", "EHLO"} /\ e.pre = IdleAt("Mail")) =>
                     /\ Count(e.calls, "reset") = 1
                     /\ e.calls = IF e.cmd = "RSET" THEN <<"reset">>
                                  ELSE <<"reset", "hello">>
                     /\ ~HasTxn(e.post) /\ e.nrcpt2 = 0
              /\ (e.cmd = "wakeup" /\ e.pre.wait \in {"Helo", "Ehlo"}) =>
                     /\ Count(e.calls, "reset") = 0
                     /\ ~HasTxn(e.post)
              /\ (e.cmd \in {"RCPT", "DATA"} /\ ~HasTxn(e.pre)) =>
                     /\ Starts503(e.out)
                     /\ e.calls = <<>>
                     /\ ~HasTxn(e.post) /\ e.fed = <<>>
      ]_vars

\* RSET and RCPT came in one read inside a transaction with a recipient:
\* the RSET reset it and the RCPT got 503.
C21_Witness ==
    /\ Len(log) = 2
    /\ log[1].cmd = "RSET" /\ log[1].pre = IdleAt("Mail") /\ log[1].nrcpt > 0
    /\ log[1].calls = <<"reset">>
    /\ log[2].cmd = "RCPT" /\ Starts503(log[2].out) /\ log[2].calls = <<>>

\* C22: whenever the connection ends while a mail transaction is open, by
\* an end of the stream, a failed read or write, QUIT or a close after a
\* rejection, the handler's reset is called on the transaction before the
\* connection is removed.
C22_EndResetsTransaction ==
    [][/\ \A i \in 1..Len(log') :
              (HasTxn(log'[i].pre) /\ log'[i].post = Dead) =>
                  Called(log'[i], "reset")
       /\ (conn = "open" /\ conn' = "removed" /\ HasTxn(state)) =>
              \E i \in 1..Len(log') : Called(log'[i], "reset")
      ]_vars

(***************************************************************************)
(* Rejections.                                                             *)
(***************************************************************************)
\* The handler method that decided e: the one called, or the one whose
\* Defer was woken up; "none" where no decision was taken.
Decider(e) ==
    CASE e.calls = <<>> -> "none"
      [] Last(e.calls) = "wakeup" ->
            (CASE e.pre.wait \in {"Helo", "Ehlo"} -> "hello"
               [] e.pre.wait = "Mail" -> "mail"
               [] e.pre.wait = "Rcpt" -> "recipient"
               [] e.pre.wait = "Data" -> "data"
               [] OTHER -> "other")
      [] Last(e.calls) \in {"hello", "mail", "recipient", "data"} -> Last(e.calls)
      [] OTHER -> "other"

\* The handler rejected in e and wrote nothing: hello and data have no
\* reply buffer to write into.
RejectedSilently(e) ==
    \/ Decider(e) \in {"mail", "recipient"} /\ e.d = "rejq"
    \/ Decider(e) \in {"hello", "data"} /\ e.d \in {"rej", "rejq"}

\* C23: when the handler rejects a command, through mail, recipient, data
\* or hello, and has written nothing, the core appends one rejection reply,
\* so that the command does not go unanswered.
C23_RejectionIsAnswered ==
    \A e \in Steps :
        RejectedSilently(e) =>
            /\ e.out # <<>>
            /\ Head(e.out) = "5"
            /\ ReplyCount(e.out) = 1

\* The handler rejected in e.
Rejected(e) == Decider(e) \in {"hello", "mail", "recipient", "data"}
               /\ e.d \in {"rej", "rejq"}

\* C24, as stated: a rejection by the handler through hello, mail,
\* recipient or data does not end the session: it still reads commands and
\* the connection is not being closed.
C24_RejectionKeepsSession ==
    \A e \in Steps :
        Rejected(e) => e.post.k = "Idle" /\ e.act # "Close"

\* C24, amended: a rejection through mail, recipient or data leaves the
\* session at Greeted with the connection open, and the next command is
\* processed from there; a rejection through hello is answered 550, makes
\* the session Dead and closes the connection once the reply is written.
C24_RejectionButHelloKeepsSession ==
    [][\A i \in 1..Len(log') :
          LET e == log'[i]
          IN  /\ (Rejected(e) /\ Decider(e) # "hello") =>
                     /\ e.post = IdleAt("Greeted")
                     /\ e.act \in {"Collect", "Write"}
                     /\ conn' = "open"
                     /\ IF i = Len(log')
                        THEN state' = IdleAt("Greeted") /\ plot'.then # "Close"
                        ELSE log'[i + 1].pre = IdleAt("Greeted")
              /\ (Rejected(e) /\ Decider(e) = "hello") =>
                     /\ OneReply(e.out, <<"5", "5", "0">>)
                     /\ e.post = Dead /\ e.act = "Close"
                     /\ i = Len(log')
                     /\ state' = Dead /\ plot' = PlotWrite("Close")
      ]_vars

\* MAIL and NOOP came in one read; the handler rejected the MAIL and the
\* NOOP behind it was answered 250.
C24_Witness ==
    /\ Len(log) = 2 /\ conn = "open" /\ state = IdleAt("Greeted")
    /\ log[1].cmd = "MAIL" /\ Rejected(log[1])
    /\ log[2].cmd = "NOOP" /\ OneReply(log[2].out, <<"2", "5", "0">>)

(***************************************************************************)
(* Commands that do not parse.                                             *)
(***************************************************************************)
\* C25: an unrecognized command is answered 500 5.5.2 and a command with a
\* parameter error 501 5.5.4; the state of the session, its level and its
\* transaction with its recipients, is as before, no handler is called,
\* and the session goes on reading commands once the reply is written.
C25_ParseErrorsKeepState ==
    [][\A i \in 1..Len(log') :
          LET e == log'[i]
          IN  e.cmd \in {"Unrecognized", "ParameterError"} =>
                  /\ e.out = IF e.cmd = "Unrecognized"
                              THEN <<"5", "0", "0", SP, "5", DOT, "5", DOT, "2", SP,
                                     "Unrecognized command.", CR, LF>>
                              ELSE <<"5", "0", "1", SP, "5", DOT, "5", DOT, "4", SP,
                                     "Error in command parameters.", CR, LF>>
                  /\ e.pre.k \in {"Idle", "Dead"}
                  /\ e.post = e.pre /\ e.nrcpt2 = e.nrcpt
                  /\ e.calls = <<>> /\ e.fed = <<>>
                  /\ e.act = "Write"
                  /\ i = Len(log')
                  /\ conn' = "open" /\ state' = e.pre /\ plot' = PlotWrite("Read")
      ]_vars

\* A command with a parameter error has left a transaction with a
\* recipient as it was.
C25_Witness ==
    /\ conn = "open" /\ state = IdleAt("Mail") /\ nrcpt > 0
    /\ \E e \in Steps : e.cmd = "ParameterError" /\ e.pre = IdleAt("Mail")
                          /\ e.nrcpt > 0 /\ e.nrcpt2 = e.nrcpt

\* C26: when the parser reports an error it cannot recover from, one reply
\* 500 is appended and the connection is kept until that reply is written,
\* and closed then.
C26_StreamErrorGets500 ==
    [][\A i \in 1..Len(log') :
          log'[i].cmd = "Err" =>
              /\ Is500(log'[i].out)
              /\ conn' = "open" /\ plot' = PlotWrite("Close")
      ]_vars

(***************************************************************************)
(* The data phase.                                                         *)
(***************************************************************************)
\* A message_size_limit of a Config that the longest message data of the
\* client exceeds by one octet.  The session reads the limit for the reply
\* to EHLO only, so that what it does with data is the same under every
\* limit.
SmallLimit == MaxBody - DataEndLen - 1

\* The message data has come to its end in e and the handler has decided.
Completed(e) ==
    /\ e.cmd = "body" /\ Called(e, "complete") /\ e.d # "defer"

\* C27: message data longer than the message_size_limit is answered 552
\* when it is complete, and no transaction is left.
C27_OversizeGets552 ==
    \A e \in Steps :
        (Completed(e) /\ Len(sink.bytes) > SmallLimit) =>
            /\ OneReply(e.out, <<"5", "5", "2">>)
            /\ ~HasTxn(e.post)

(***************************************************************************)
(* The Reply.                                                              *)
(***************************************************************************)
\* The octets of the reply in the making.
ReplyOut(rp) == SubSeq(rp.r.buf.inner, rp.start + 1, Len(rp.r.buf.inner))

\* Every line of the reply begins with its code; a dash follows the code
\* on every line but the last and a space on the last.
WellFormed(rp) ==
    LET lines == ReplyLines(ReplyOut(rp))
    IN  /\ Len(lines) >= 1
        /\ rp.r.code >= 200 /\ rp.r.code <= 599
        /\ \A i \in 1..Len(lines) :
               /\ Len(lines[i]) >= 4
               /\ SubSeq(lines[i], 1, 3) = Decimal(rp.r.code)
               /\ lines[i][4] = IF i = Len(lines) THEN SP ELSE DASH

\* C28: after every sequence of writes to one Reply, byte strings with any
\* number of CRLFs, single octets, decimal numbers and empty writes, every
\* line of the reply in the send buffer begins with the three digits of its
\* code, which is within 200 .. 599; every line but the last has a dash
\* after the code and the last a space; an empty write changes nothing.
C28_EveryLineHasCode ==
    [][/\ WellFormed(reply')
       /\ reply'.w = "empty" => reply'.r = reply.r
      ]_vars

\* What the handler's complete writes under the decision d.
CompleteWrites(d) ==
    CASE d = "ok" -> HandlerAccept(SendBufNew, "complete").inner
      [] d = "rej" -> HandlerReject(SendBufNew, "complete").inner
      [] OTHER -> <<>>

\* C29: a session that reads message data works on nothing else; as long
\* as the end of the data has not come it appends nothing to the send
\* buffer, calls nothing but chunk and stays as it is; once the end has come
\* the octets appended are those the handler writes in complete.
C29_SilentWhileReadingData ==
    [][\A i \in 1..Len(log') :
          LET e == log'[i]
          IN  e.pre = InData =>
                  /\ e.cmd = "body"
                  /\ IF Called(e, "complete")
                     THEN /\ e.calls = <<"complete">>
                          /\ e.out = CompleteWrites(e.d)
                     ELSE /\ e.calls = <<>>
                          /\ e.out = <<>>
                          /\ e.post = InData /\ e.act = "Read"
                          /\ i = Len(log')
                          /\ state' = InData
                          /\ send'.inner = send.inner \/ send' = SendBufNew
                          /\ SendIsEmpty(send') \/ send' = send
      ]_vars

\* A read of message data without its end has handed a chunk to the sink
\* and the send buffer is empty.
C29_Witness ==
    /\ state = InData /\ send = SendBufNew /\ conn = "open"
    /\ \E e \in Steps : e.cmd = "body" /\ ~Called(e, "complete") /\ e.fed # <<>>

\* e is a read of message data in which the end of the data has not come.
ReadOn(e) == e.cmd = "body" /\ ~Called(e, "complete")

\* C30, as stated: when the receive buffer of a session that reads message
\* data holds no end of data, all its octets but the last 4 go to the sink
\* and exactly those 4 stay in the receive buffer.
C30_KeepsLastFour ==
    \A e \in Steps :
        (ReadOn(e) /\ Len(e.fed) + e.rest >= 4) => e.rest = 4

\* C30, amended: when the receive buffer of a session that reads message
\* data holds no end of data, all its octets but the last 5 go to the sink,
\* in order, and exactly those 5 stay in the receive buffer; a buffer of
\* fewer than 5 octets stays whole and nothing goes to the sink.
C30_KeepsLastFive ==
    [][\A i \in 1..Len(log') :
          ReadOn(log'[i]) =>
              /\ Len(recv') = log'[i].rest
              /\ log'[i].rest = Min(Len(log'[i].fed) + log'[i].rest, 5)
              /\ IsPrefix(recv, log'[i].fed \o recv')
              /\ sink'.bytes \o recv' = dstream'
              /\ sink'.completes = 0
      ]_vars

\* A read without the end of data has left five octets in the receive
\* buffer and handed the octets before them to the sink.
C30_Witness ==
    /\ state = InData /\ Len(recv) = 5 /\ sink.bytes # <<>>
    /\ \E e \in Steps : ReadOn(e) /\ e.fed # <<>> /\ e.rest = 5


(***************************************************************************)
(* VRFY, EXPN and HELP.                                                    *)
(***************************************************************************)
Ancillaries == {"VRFY", "EXPN", "HELP"}

\* C31: a VRFY, EXPN or HELP of an idle session goes to the handler at
\* every level; a Defer makes the session wait with the level kept, and the
\* final decision, at once or on a wakeup, leaves the session idle at the
\* level it had, with the recipients of an open transaction as they were
\* and no reset.
C31_AncillaryKeepsLevel ==
    \A e \in Steps :
        /\ (e.cmd \in Ancillaries /\ e.pre.k = "Idle") =>
               /\ e.calls = <<AncillaryName(AncillaryKind(e.cmd))>>
               /\ e.nrcpt2 = e.nrcpt
               /\ IF e.d = "defer"
                  THEN e.post = WaitFor(AncillaryKind(e.cmd), e.pre.level)
                  ELSE e.post = e.pre
        /\ (e.cmd = "wakeup" /\ e.pre.wait \in {"Vrfy", "Expn", "Help"}) =>
               /\ e.calls = <<"wakeup">>
               /\ e.nrcpt2 = e.nrcpt
               /\ IF e.d = "defer" THEN e.post = e.pre
                  ELSE e.post = IdleAt(e.pre.level)

\* A deferred EXPN inside a transaction with a recipient has been decided
\* on the wakeup, and the transaction is as it was.
C31_Witness ==
    /\ WokeUp(log) /\ log[1].pre = WaitFor("Expn", "Mail") /\ log[1].d \in {"rej", "rejq"}
    /\ log[1].nrcpt >= 1
    /\ state = IdleAt("Mail") /\ nrcpt >= 1


(***************************************************************************)
(* The send buffer.                                                        *)
(***************************************************************************)
\* The last call was a try_write that returned Ok.
Wrote == fifo.op = "try_write" /\ fifo.res \in {"True", "False"}

\* The octets handed to the transport, then the unwritten ones, are the
\* octets appended: the same octets in the same order, none twice.
InOrderOnce == fifo.taken \o SendSlice(send) = fifo.appended

\* C32, as stated: the octets go to the transport in the order of their
\* appending, each once; a try_write reports done exactly when no unwritten
\* octet remains, and then the cursor is 0 and the storage is empty.
C32_FifoAndDone ==
    /\ InOrderOnce
    /\ Wrote => (fifo.res = "True" <=> SendIsEmpty(send))
    /\ (Wrote /\ fifo.res = "True") => send = SendBufNew

\* C32, amended: a try_write reports done exactly when the transport took
\* the call (it neither failed nor would block) and no unwritten octet
\* remains; of a call that found unwritten octets, exactly when none
\* remains.
C32_FifoAndDoneWhenTaken ==
    /\ InOrderOnce
    /\ Wrote => (fifo.res = "True" <=> (fifo.took = "Some" /\ SendIsEmpty(send)))
    /\ (Wrote /\ fifo.left > 0) => (fifo.res = "True" <=> SendIsEmpty(send))
    /\ (Wrote /\ fifo.res = "True") => send = SendBufNew

\* Appends and partial writes have alternated, and the last write has
\* drained the buffer.
C32_Witness ==
    /\ Wrote /\ fifo.res = "True" /\ fifo.left = 1
    /\ Len(fifo.appended) = MaxAppend /\ fifo.taken = fifo.appended
    /\ send = SendBufNew


(***************************************************************************)
(* Failures of the socket.                                                 *)
(***************************************************************************)
\* The event did nothing but remove the connection: the session was not
\* entered (no step, no handler call, no decision asked for), and state,
\* buffers and cursor are what they were.
OnlyRemoved(t) ==
    /\ t.conn = "removed"
    /\ t.log = <<>> /\ t.calls = <<>> /\ ~t.starved
    /\ t.state = state /\ t.recv = recv /\ t.send = send /\ t.tls = tls

\* C33: wherever the event loop can deliver readable, a try_read that
\* fails or reports the end of the stream only removes the connection, and
\* wherever it can deliver writable, a try_write that fails only removes
\* it: nothing is appended to or taken from the send buffer and the session
\* and its handler are not called.
C33_FailureOnlyRemoves ==
    /\ (conn = "open" /\ plot.p \in {"Read", "Wait"}) =>
           \A kind \in {"Eof", "Err"} : OnlyRemoved(Run(ReadEvent(kind, <<>>), <<>>))
    /\ (conn = "open" /\ plot.p = "Write") =>
           \A hsok \in BOOLEAN :
               OnlyRemoved(Run(WriteEvent([kind |-> "Err", n |-> 0], hsok), <<>>))

\* A write has failed inside a transaction with replies half written: the
\* connection is gone, the replies are where they were.
C33_Witness ==
    /\ conn = "removed" /\ log = <<>>
    /\ plot = PlotWrite("Read") /\ send.pos > 0 /\ ~SendIsEmpty(send)
    /\ state = IdleAt("Mail") /\ nrcpt >= 1


(***************************************************************************)
(* Wakeups nobody waits for.                                               *)
(***************************************************************************)
\* The step parsed a command line.
Parsed(e) == e.cmd \in Verbs \cup {"Unrecognized", "ParameterError", "Err"}

\* A write is pending that ends the connection or starts the handshake.
EndPending == plot \in {PlotWrite("Close"), PlotWrite("StartTls")}

\* C34: a wakeup that finds the session not in Wait leaves the plot as it
\* is, so that a pending Write(Close) or Write(StartTls) still closes the
\* connection or starts the handshake once the send buffer is written
\* out, and it makes the session parse no command.
C34_StrayWakeupChangesNothing ==
    [][StrayWakeup(Wakeful) =>
           /\ conn' = "open" /\ plot' = plot
           /\ EndPending => (send' = send /\ recv' = recv /\ state' = state)
           /\ \A i \in 1..Len(log') : ~Parsed(log'[i])
      ]_vars


(***************************************************************************)
(* Termination of Transport::recv.                                         *)
(***************************************************************************)
\* C35: every chain of calls of Transport::recv and Transport::and_then
\* comes to a result (read, wait, write or remove) after finitely many
\* calls, whatever the state of the session and the content of the
\* buffers: no event leaves the connection in a chain that never returns.
C35_RecvTerminates == conn # "hung"


(***************************************************************************)
(* Waiting for the client.                                                 *)
(***************************************************************************)
\* C36: when the transport waits for the socket to become readable (the
\* plot is Read) and the receive buffer is empty, the send buffer holds
\* nothing unwritten.
C36_NoReplyLeftBehind ==
    (conn = "open" /\ plot = PlotRead /\ recv = <<>>) => SendIsEmpty(send)


(***************************************************************************)
(* The confirmation of TLS.                                                *)
(***************************************************************************)
Confirmed(e) == e.cmd = "confirm_tls"

\* C37: Session::confirm_tls is called only on an idle session, so never
\* runs into unreachable!(): a session is idle for as long as a handshake
\* is pending, the call is the first thing done by the read that ends the
\* handshake and makes the connection secure; and it is called at most
\* once, since a handshake begins only on a clear connection and a secure
\* connection stays secure.
C37_ConfirmTlsOnlyIdleOnce ==
    [][/\ conn' # "panic"
       /\ tls = "Handshake" => state.k = "Idle"
       /\ \A i \in 1..Len(log') :
              Confirmed(log'[i]) =>
                  /\ i = 1 /\ log'[i].pre.k = "Idle" /\ log'[i].pre = state
                  /\ tls = "Handshake" /\ tls' = "Secure"
       /\ (tls = "Handshake" /\ tls' # "Handshake") =>
              (conn' = "removed" \/ (log' # <<>> /\ Confirmed(log'[1])))
       /\ (tls # "Handshake" /\ tls' = "Handshake") => tls = "Clear"
       /\ tls = "Secure" => tls' = "Secure"
      ]_vars

\* The handshake that a STARTTLS inside a transaction began has been
\* confirmed, and the session has read on as a secure one.
C37_Witness ==
    /\ log # <<>> /\ Confirmed(log[1]) /\ log[1].pre = IdleAt("Mail")
    /\ tls = "Secure" /\ conn = "open" /\ state.k = "Idle"


\* The step brought the decision of check_tls: the confirmation itself or
\* the wakeup of its Defer.
TlsChecked(e) ==
    /\ Confirmed(e) \/ (e.cmd = "wakeup" /\ e.pre.wait = "CheckTls")
    /\ e.d # "defer"

\* C38: the confirmation of TLS resets a transaction that is open, once and
\* before it asks check_tls, and resets nothing otherwise; when check_tls
\* accepts, at once or on the wakeup of its Defer, the session is idle at
\* level Early with no recipients, whatever the level was; at level Early
\* MAIL, RCPT and DATA are answered 503 without a handler call and leave
\* the level, and an idle session leaves level Early for another level only
\* by a HELO or EHLO that the handler accepts (it may wait for a decision
\* on the way).
C38_TlsRestartsAtEarly ==
    \A e \in Steps :
        /\ Confirmed(e) =>
               /\ e.calls = IF e.pre.level = "Mail" THEN <<"reset", "check_tls">>
                            ELSE <<"check_tls">>
               /\ e.out = <<>>
        /\ (e.cmd = "wakeup" /\ e.pre.wait = "CheckTls") => e.calls = <<"wakeup">>
        /\ (TlsChecked(e) /\ Accepts(e.d)) =>
               (e.post = IdleAt("Early") /\ e.nrcpt2 = 0)
        /\ (e.cmd \in {"MAIL", "RCPT", "DATA"} /\ e.pre = IdleAt("Early")) =>
               (Starts503(e.out) /\ e.calls = <<>> /\ e.post = e.pre)
        /\ (e.pre = IdleAt("Early") /\ e.post # e.pre /\ e.post # Dead) =>
               \/ e.cmd \in Ancillaries /\ e.post = WaitFor(AncillaryKind(e.cmd), "Early")
               \/ e.cmd \in {"HELO", "EHLO"} /\ e.post.k = "Wait"
               \/ Confirmed(e) /\ e.post = WaitFor("CheckTls", "None")
               \/ e.cmd \in {"HELO", "EHLO"} /\ Accepts(e.d) /\ e.post = IdleAt("Greeted")

\* TLS has been confirmed over a transaction with a recipient, check_tls
\* has accepted, and the RCPT that came with the same read got its 503.
C38_Witness ==
    /\ Len(log) = 2
    /\ Confirmed(log[1]) /\ log[1].pre = IdleAt("Mail") /\ log[1].nrcpt >= 1
    /\ Accepts(log[1].d) /\ log[1].calls = <<"reset", "check_tls">>
    /\ log[2].cmd = "RCPT" /\ log[2].pre = IdleAt("Early") /\ Starts503(log[2].out)
    /\ tls = "Secure" /\ state = IdleAt("Early")


(***************************************************************************)
(* The Dead session.                                                       *)
(***************************************************************************)
\* The reply of a Dead session to a command it does not take.
LeaveNow == <<"5", "0", "3", SP, "5", DOT, "5", DOT, "1", SP, "Please leave now", CR, LF>>

\* C39: a Dead session stays Dead through every event; the event calls no
\* handler, and each of its steps is a command line parsed by a Dead
\* session that leaves it Dead; a command other than QUIT, Unrecognized and
\* ParameterError appends the one reply 503 5.5.1 and asks for it to be
\* written, and changes nothing else: no recipients, no message data.
C39_DeadIsAbsorbing ==
    [][/\ state = Dead =>
              /\ state' = Dead
              /\ nrcpt' = 0
              /\ sink'.bytes = sink.bytes /\ sink'.completes = sink.completes
              /\ send'.inner \in {send.inner \o Outs(log'), Outs(log')}
              /\ \A i \in 1..Len(log') : log'[i].pre = Dead
       /\ \A i \in 1..Len(log') :
              log'[i].pre = Dead =>
                  /\ log'[i].post = Dead
                  /\ i = Len(log') => state' = Dead
                  /\ log'[i].calls = <<>>
                  /\ Parsed(log'[i])
                  /\ log'[i].fed = <<>> /\ log'[i].nrcpt2 = 0
                  /\ log'[i].cmd \in Verbs \ {"QUIT"} =>
                         (log'[i].out = LeaveNow /\ log'[i].act = "Write")
      ]_vars

\* A Dead session on an open connection has answered a MAIL with 503.
C39_Witness ==
    /\ state = Dead /\ conn = "open"
    /\ \E e \in Steps : e.pre = Dead /\ e.cmd = "MAIL" /\ e.out = LeaveNow

\* out is one reply with this code on every line, a dash after the code on
\* every line but the last, a space on the last, and no enhanced status
\* code after it.
PlainReply(out, code) ==
    LET lines == ReplyLines(out)
    IN  /\ lines # <<>>
        /\ Len(out) >= 2 /\ SubSeq(out, Len(out) - 1, Len(out)) = <<CR, LF>>
        /\ \A i \in 1..Len(lines) :
               /\ Len(lines[i]) >= 5
               /\ SubSeq(lines[i], 1, 4)
                      = Decimal(code) \o <<IF i = Len(lines) THEN SP ELSE DASH>>
               /\ \A k \in 1..Len(DigitChars) : lines[i][5] # DigitChars[k]

\* C40: in the smtp::daemon session, a new connection first emits a reply
\* with code 220, and an EHLO received in the Early state is answered with
\* a reply whose code is 250 and which carries no enhanced status code.
C40_LegacyGreetingAndEhlo ==
    /\ legacy.cmd = "start" => PlainReply(legacy.out, 220)
    /\ (legacy.cmd = "EHLO" /\ legacy.pre = "Early") => PlainReply(legacy.out, 250)
====
